---------------------------- MODULE Spec2Model ----------------------------
(***************************************************************************)
(* A model of the engarde client (Rust/Client/src/main.rs) and of its      *)
(* scheduler library (Rust/Client/src/scheduler/mod.rs).                   *)
(*                                                                         *)
(* Three specifications share the variables below:                         *)
(*   SpecSched   one scheduler object (Mirror, WRR or Replica2, as built   *)
(*               by SchedulerFactory::build) called repeatedly on a slice  *)
(*               of LinkState values;                                      *)
(*   SpecFair    the two smooth-WRR implementations selecting over links   *)
(*               that stay up with tokens refilled before every call;      *)
(*   SpecClient  the client's tasks: interface poller, downstream ingress  *)
(*               and the management handlers.                              *)
(* A specification leaves the variables of the other parts at their        *)
(* initial value.                                                          *)
(*                                                                         *)
(* f64 quantities (weights, rtt, loss, rates) are drawn from small         *)
(* integers, on which f64 arithmetic is exact; eta is kept as a fraction   *)
(* and compared by cross-multiplication.                                   *)
(***************************************************************************)
EXTENDS Integers, Sequences, FiniteSets, TLC

VARIABLES
    \* ---- scheduler library (scheduler/mod.rs)
    algorithm,                  \* SchedulerAlgorithm handed to the factory
    min_links_for_aggregation,  \* AggregationConfig.min_links_for_aggregation
    config,                     \* Replica2WeightedConfig
    links,                      \* the caller's slice of LinkState
    entries,                    \* WeightedRoundRobinScheduler.entries
    cache,                      \* WeightedRoundRobinScheduler.cache
    metrics,                    \* Replica2WeightedScheduler.metrics
    last,                       \* the last select_paths call: input, output
    ncalls,                     \* number of select_paths calls made
    \* ---- smooth WRR of main.rs and selection counts
    rr_state,                   \* WeightedRoundRobinState
    picks,                      \* per implementation: selections of each link
    \* ---- client tasks (main.rs)
    excluded_interfaces,        \* ClientConfig.excluded_interfaces
    aggregation,                \* AggregationAlgorithm of the client
    swaps,                      \* EXCLUSION_SWAPS
    host,                       \* what get_if_addrs() reports
    channels,                   \* SendingChannels: the link table
    chan_lock,                  \* holder of the link table's mutex
    weight_manager,             \* WeightManager
    weights_file,               \* the weights file on disk
    wg_addr,                    \* WireGuard reply address
    poller,                     \* update_available_interfaces task
    ingress,                    \* receive_from_wireguard task
    mgmt,                       \* management requests in flight
    sent,                       \* log of send_to calls on link sockets
    hist,                       \* bookkeeping of the client run
    client_cfg,                 \* ClientConfig as create_send_thread reads it
    tasks,                      \* the wg_write_back tasks, in spawn order
    forwarded,                  \* log of send_to calls on the WireGuard socket
    locks,                      \* the client's locks and each task's place in
                                \* its sequence of lock operations
    server                      \* the server's client table and its two tasks

schedVars == <<algorithm, min_links_for_aggregation, config, links, entries,
               cache, metrics, last, ncalls>>
fairVars == <<rr_state, picks>>
clientVars == <<excluded_interfaces, aggregation, swaps, host, channels,
                chan_lock, weight_manager, weights_file, wg_addr, poller,
                ingress, mgmt, sent, hist>>
linkVars == <<client_cfg, tasks, forwarded, locks, server>>
vars == <<schedVars, fairVars, clientVars, linkVars>>

\* --------------------------------------------------------------- bounds
\* select_paths calls per behaviour of SpecSched
MaxCalls == 2
\* largest weight in SpecFair
MaxWeight == 3
\* rounds of sum-of-weights selections followed in SpecFair
MaxRounds == 2
\* calls of the weight store and changes of its file per behaviour of
\* SpecWeights
MaxStoreEvents == 3
\* events of the environment (downstream datagrams, management requests,
\* changes of the host's interfaces) per behaviour of SpecClient
MaxEvents == 3

\* the number of changes the caller makes to the slice
MaxLinkEdits == 2

\* the number of select_paths calls on a slice that changes
MaxWrrCalls == 3
MaxServerEvents == 5

\* path ids of the links in a slice
PathIds == {1, 2, 3}
\* orders in which the ids appear in the slice
SliceIds == {<<1>>, <<2, 1>>, <<1, 2, 3>>, <<3, 1, 2>>}
WeightValues == {-1, 0, 1, 2}
TokenValues == {1, 2}
PktLens == {1, 2}
MinLinksValues == {1, 4}
\* smoothed_rtt (seconds), loss, send_bps and inflight_bytes of the link with
\* a given id; loss is counted in units of 1/LossDen
RttOf == <<1, 1, 0>>
LossDen == 5
LossOf == <<0, 0, 1>>
SendBpsOf == <<0, 0, 2>>
InflightOf == <<0, 0, 4>>

None == "None"

\* ------------------------------------------------------------ helpers
Range(s) == {s[i] : i \in DOMAIN s}

RECURSIVE SumSeq(_)
SumSeq(s) == IF s = <<>> THEN 0 ELSE Head(s) + SumSeq(Tail(s))

\* mutant: nothing is subtracted
saturating_sub_Kept(a, b) == a

\* usize::saturating_sub
saturating_sub(a, b) == IF a >= b THEN a - b ELSE 0

\* Iterator::position of the first link with this id (0: none)
FindLink(ls, id) ==
    IF \E i \in DOMAIN ls : ls[i].id = id
    THEN CHOOSE i \in DOMAIN ls :
           ls[i].id = id /\ \A j \in DOMAIN ls : ls[j].id = id => i <= j
    ELSE 0

\* ------------------------------------------------------- LinkState
LinkState(id, up, weight, tokens) ==
    [id |-> id, up |-> up, weight |-> weight, smoothed_rtt |-> RttOf[id],
     loss |-> LossOf[id], send_bps |-> SendBpsOf[id],
     inflight_bytes |-> InflightOf[id], tokens |-> tokens]

SchedulerMetricsDefault ==
    [replica2_primary |-> 0, replica2_secondary |-> 0,
     replica2_fallbacks |-> 0, no_token_skips |-> 0]

\* mutant: a primary is counted at every accumulation
accumulate_AddsPrimary(self, other) ==
    [self EXCEPT !.replica2_primary = @ + 1]

accumulate(self, other) ==
    [replica2_primary |-> self.replica2_primary + other.replica2_primary,
     replica2_secondary |-> self.replica2_secondary + other.replica2_secondary,
     replica2_fallbacks |-> self.replica2_fallbacks + other.replica2_fallbacks,
     no_token_skips |-> self.no_token_skips + other.no_token_skips]

Replica2WeightedConfigDefault ==
    [use_weights |-> TRUE, loss_penalty |-> 5, queue_penalty_scale |-> 1,
     rtt_alpha |-> 1]

\* ------------------------------------------------------- MirrorScheduler
\* mutant: the token test forgotten
MirrorEligible_UpOnly(link, pkt_len) == link.up

\* the filter of the loop
MirrorEligible(link, pkt_len) == link.up /\ link.tokens >= pkt_len

Mirror_select_paths(pkt_len, ls) ==
    LET chosen == SelectSeq(ls, LAMBDA l : MirrorEligible(l, pkt_len))
    IN [result |-> [i \in DOMAIN chosen |-> chosen[i].id],
        links |-> [i \in DOMAIN ls |->
                     IF MirrorEligible(ls[i], pkt_len)
                     THEN [ls[i] EXCEPT !.tokens = saturating_sub(@, pkt_len)]
                     ELSE ls[i]]]

\* ------------------------------------------- WeightedRoundRobinScheduler
WeightedEntry(id, weight) == [id |-> id, weight |-> weight, current_weight |-> 0]

\* The weights of the model are integers, all finite: is_finite() holds and
\* |a - b| > f64::EPSILON is a # b.

\* mutant: min taken for max in the clamp
RebuildWeight_Min(link) == IF link.weight < 0 THEN link.weight ELSE 0

\* link.weight.max(0.0)
RebuildWeight(link) == IF link.weight > 0 THEN link.weight ELSE 0

\* mutant: the accumulated weight is dropped at every rebuild
RebuildEntry_AlwaysReset(old, link) == WeightedEntry(link.id, RebuildWeight(link))

\* one iteration of the loop of rebuild: the entry pushed for an up link
RebuildEntry(old, link) ==
    LET weight == RebuildWeight(link)
        at == FindLink(old, link.id)
        entry == IF at # 0 THEN old[at] ELSE WeightedEntry(link.id, weight)
    IN IF entry.weight # weight
       THEN [entry EXCEPT !.weight = weight, !.current_weight = 0]
       ELSE entry

Wrr_rebuild(old, ls) ==
    LET upl == SelectSeq(ls, LAMBDA l : l.up)
    IN [entries |-> [p \in DOMAIN upl |-> RebuildEntry(old, upl[p])],
        cache |-> [id \in {upl[p].id : p \in DOMAIN upl} |->
                     (CHOOSE p \in DOMAIN upl :
                        upl[p].id = id /\
                        \A q \in DOMAIN upl : upl[q].id = id => q <= p) - 1]]

\* mutant: the tokens are not looked at
WrrSkipped_AnyTokens(entry, ls, pkt_len) ==
    LET at == FindLink(ls, entry.id)
    IN \/ at = 0
       \/ ~ls[at].up
       \/ entry.weight <= 0

\* the filter of total_weight and of the selection loop
WrrSkipped(entry, ls, pkt_len) ==
    LET at == FindLink(ls, entry.id)
    IN \/ at = 0
       \/ ~ls[at].up
       \/ ls[at].tokens < pkt_len
       \/ entry.weight <= 0

Wrr_total_weight(es, ls, pkt_len) ==
    SumSeq([i \in DOMAIN es |->
              IF WrrSkipped(es[i], ls, pkt_len) THEN 0 ELSE es[i].weight])

\* The selection loop from entry idx on: best_idx 0 is None, and then
\* best_weight is NEG_INFINITY.
RECURSIVE WrrScan(_, _, _, _, _, _)
WrrScan(es, ls, pkt_len, idx, best_idx, best_weight) ==
    IF idx > Len(es) THEN [entries |-> es, best_idx |-> best_idx]
    ELSE IF WrrSkipped(es[idx], ls, pkt_len)
         THEN WrrScan(es, ls, pkt_len, idx + 1, best_idx, best_weight)
         ELSE LET cw == es[idx].current_weight + es[idx].weight
                  es2 == [es EXCEPT ![idx].current_weight = cw]
              IN IF best_idx = 0 \/ cw > best_weight
                 THEN WrrScan(es2, ls, pkt_len, idx + 1, idx, cw)
                 ELSE WrrScan(es2, ls, pkt_len, idx + 1, best_idx, best_weight)

Wrr_select_paths(old, pkt_len, ls) ==
    LET rb == Wrr_rebuild(old, ls)
        sc == WrrScan(rb.entries, ls, pkt_len, 1, 0, 0)
        idx == sc.best_idx
        total == Wrr_total_weight(sc.entries, ls, pkt_len)
    IN IF idx = 0 \/ total <= 0
       THEN [result |-> <<>>, links |-> ls, entries |-> sc.entries,
             cache |-> rb.cache]
       ELSE LET chosen_id == sc.entries[idx].id
                at == FindLink(ls, chosen_id)
            IN [result |-> <<chosen_id>>,
                links |-> IF at = 0 THEN ls
                          ELSE [ls EXCEPT ![at].tokens = saturating_sub(@, pkt_len)],
                entries |-> [sc.entries EXCEPT ![idx].current_weight = @ - total],
                cache |-> rb.cache]


\* --------------------------------------------- Replica2WeightedScheduler
\* mutant: the weight is not floored at 0.1 but replaced by 1 below 1
Replica2_compute_eta_FloorOne(cfg, link) ==
    LET send_bps == IF link.send_bps > 0 THEN link.send_bps ELSE 1
        num == cfg.rtt_alpha * link.smoothed_rtt * send_bps * LossDen
               + cfg.queue_penalty_scale * link.inflight_bytes * LossDen
               + link.loss * cfg.loss_penalty * send_bps
        wnum == IF link.weight >= 1 THEN link.weight ELSE 1
    IN IF cfg.use_weights
       THEN [num |-> num, den |-> send_bps * LossDen * wnum]
       ELSE [num |-> num, den |-> send_bps * LossDen]

\* eta as the fraction num/den, den > 0.  max(weight, 0.1) of an integer
\* weight is the weight itself from 1 on and 1/10 below.
Replica2_compute_eta(cfg, link) ==
    LET send_bps == IF link.send_bps > 0 THEN link.send_bps ELSE 1
        num == cfg.rtt_alpha * link.smoothed_rtt * send_bps * LossDen
               + cfg.queue_penalty_scale * link.inflight_bytes * LossDen
               + link.loss * cfg.loss_penalty * send_bps
        wnum == IF link.weight >= 1 THEN link.weight ELSE 1
        wden == IF link.weight >= 1 THEN 1 ELSE 10
    IN IF cfg.use_weights
       THEN [num |-> num * wden, den |-> send_bps * LossDen * wnum]
       ELSE [num |-> num, den |-> send_bps * LossDen]

\* f64::partial_cmp on two finite values
EtaCmp(a, b) ==
    IF a.num * b.den < b.num * a.den THEN "Less"
    ELSE IF a.num * b.den > b.num * a.den THEN "Greater"
    ELSE "Equal"

\* the comparator handed to sort_by
CandidateCmp(a, b) ==
    IF EtaCmp(a.eta, b.eta) = "Equal"
    THEN (IF a.id < b.id THEN "Less" ELSE IF a.id > b.id THEN "Greater" ELSE "Equal")
    ELSE EtaCmp(a.eta, b.eta)

\* slice::sort_by is a stable sort: insertion after the last element that is
\* not greater
RECURSIVE InsertSorted(_, _)
InsertSorted(sorted, c) ==
    IF sorted = <<>> THEN <<c>>
    ELSE IF CandidateCmp(c, Head(sorted)) = "Less"
         THEN <<c>> \o sorted
         ELSE <<Head(sorted)>> \o InsertSorted(Tail(sorted), c)

RECURSIVE SortCandidates(_)
SortCandidates(cs) ==
    IF cs = <<>> THEN <<>>
    ELSE InsertSorted(SortCandidates(SubSeq(cs, 1, Len(cs) - 1)), cs[Len(cs)])

\* (candidates, token_skips); index is the 1-based position in the slice
RECURSIVE EligibleScan(_, _, _, _)
EligibleScan(cfg, pkt_len, ls, idx) ==
    IF idx > Len(ls) THEN [candidates |-> <<>>, token_skips |-> 0]
    ELSE LET rest == EligibleScan(cfg, pkt_len, ls, idx + 1)
             link == ls[idx]
         IN IF ~link.up THEN rest
            ELSE IF link.tokens < pkt_len
                 THEN [rest EXCEPT !.token_skips = @ + 1]
                 ELSE [rest EXCEPT !.candidates =
                         <<[index |-> idx, id |-> link.id,
                            eta |-> Replica2_compute_eta(cfg, link)]>> \o @]

\* mutant: the links without tokens are not counted
Replica2_eligible_links_NoSkips(cfg, pkt_len, ls) ==
    [EligibleScan(cfg, pkt_len, ls, 1) EXCEPT !.token_skips = 0]

Replica2_eligible_links(cfg, pkt_len, ls) == EligibleScan(cfg, pkt_len, ls, 1)

\* mutant: the delegation is not counted
Replica2_select_via_fallback_NoCount(m, wrr, pkt_len, ls) ==
    LET fb == Wrr_select_paths(wrr.entries, pkt_len, ls)
    IN [result |-> fb.result, links |-> fb.links, entries |-> fb.entries,
        cache |-> fb.cache,
        metrics |-> accumulate(m, SchedulerMetricsDefault),
        delegated |-> TRUE, fallback |-> <<fb.result>>]

\* m: the scheduler's metrics; wrr: the entries and cache of its fallback
Replica2_select_via_fallback(m, wrr, pkt_len, ls) ==
    LET fb == Wrr_select_paths(wrr.entries, pkt_len, ls)
        m1 == [m EXCEPT !.replica2_fallbacks = @ + 1]
    IN [result |-> fb.result, links |-> fb.links, entries |-> fb.entries,
        cache |-> fb.cache,
        \* the fallback's metrics() is the trait's default
        metrics |-> accumulate(m1, SchedulerMetricsDefault),
        \* history: what the fallback returned
        delegated |-> TRUE, fallback |-> <<fb.result>>]

\* mutant: the slice indexed by the position among the candidates
ReserveAll_ByPosition(ls, cs, pkt_len) ==
    [i \in DOMAIN ls |->
       IF i <= Len(cs) THEN [ls[i] EXCEPT !.tokens = saturating_sub(@, pkt_len)]
       ELSE ls[i]]

\* links.get_mut(candidate.index) and the reservation, for each candidate
RECURSIVE ReserveAll(_, _, _)
ReserveAll(ls, cs, pkt_len) ==
    IF cs = <<>> THEN ls
    ELSE ReserveAll(
           IF Head(cs).index \in DOMAIN ls
           THEN [ls EXCEPT ![Head(cs).index].tokens = saturating_sub(@, pkt_len)]
           ELSE ls,
           Tail(cs), pkt_len)

\* mutant: the floor of 3 forgotten
Replica2MinLinks_NoFloor(min_links) == min_links

\* min_links_for_aggregation.max(3)
Replica2MinLinks(min_links) == IF min_links > 3 THEN min_links ELSE 3

\* mutant: only the first candidate is taken
TakeTwo_One(sorted) == SubSeq(sorted, 1, 1)

\* candidates.iter().take(2)
TakeTwo(sorted) == SubSeq(sorted, 1, IF Len(sorted) < 2 THEN Len(sorted) ELSE 2)

Replica2_select_paths(min_links, cfg, m, wrr, pkt_len, ls) ==
    LET min_l == Replica2MinLinks(min_links)
        links_up == Cardinality({i \in DOMAIN ls : ls[i].up})
        el == Replica2_eligible_links(cfg, pkt_len, ls)
        m1 == [m EXCEPT !.no_token_skips = @ + el.token_skips]
    IN IF links_up < min_l
       THEN Replica2_select_via_fallback(m, wrr, pkt_len, ls)
       ELSE IF el.candidates = <<>>
       THEN Replica2_select_via_fallback(m1, wrr, pkt_len, ls)
       ELSE IF Len(el.candidates) = 1
       THEN [result |-> <<el.candidates[1].id>>,
             links |-> ReserveAll(ls, el.candidates, pkt_len),
             entries |-> wrr.entries, cache |-> wrr.cache,
             metrics |-> [m1 EXCEPT !.replica2_primary = @ + 1],
             delegated |-> FALSE, fallback |-> <<>>]
       ELSE LET sorted == SortCandidates(el.candidates)
                two == TakeTwo(sorted)
                result == [i \in DOMAIN two |-> two[i].id]
                m2 == IF result # <<>>
                      THEN [m1 EXCEPT !.replica2_primary = @ + 1] ELSE m1
                m3 == IF Len(result) > 1
                      THEN [m2 EXCEPT !.replica2_secondary = @ + 1] ELSE m2
            IN [result |-> result,
                links |-> ReserveAll(ls, two, pkt_len),
                entries |-> wrr.entries, cache |-> wrr.cache,
                metrics |-> m3, delegated |-> FALSE, fallback |-> <<>>]


\* ------------------------------------------------- SpecSched: the calls
\* every slice over an order of ids
SlicesOver(ids) ==
    {[i \in DOMAIN ids |-> LinkState(ids[i], u[i], w[i], t[i])] :
        u \in [DOMAIN ids -> BOOLEAN],
        w \in [DOMAIN ids -> WeightValues],
        t \in [DOMAIN ids -> TokenValues]}

Slices == UNION {SlicesOver(ids) : ids \in SliceIds}

NoCall == [pkt_len |-> 0, pre |-> <<>>, result |-> <<>>, delegated |-> FALSE,
           fallback |-> <<>>, pre_metrics |-> SchedulerMetricsDefault]

\* WeightedRoundRobinState::new
WeightedRoundRobinStateNew ==
    [servers |-> <<>>, total_weight |-> 0, last_version |-> 0, signature |-> <<>>]

\* SchedulerFactory::build on a configuration, and the caller's slice; the
\* other parts are not modelled
SchedInit ==
    /\ algorithm \in {"Mirror", "WeightedRoundRobin", "Replica2Weighted"}
    /\ min_links_for_aggregation \in
         IF algorithm = "Replica2Weighted" THEN MinLinksValues ELSE {1}
    /\ config \in
         IF algorithm = "Replica2Weighted"
         THEN {[Replica2WeightedConfigDefault EXCEPT !.use_weights = b] :
                 b \in BOOLEAN}
         ELSE {Replica2WeightedConfigDefault}
    /\ links \in Slices
    /\ entries = <<>>
    /\ cache = <<>>
    /\ metrics = SchedulerMetricsDefault
    /\ last = NoCall
    /\ ncalls = 0
    /\ rr_state = WeightedRoundRobinStateNew
    /\ picks = <<>>
    /\ excluded_interfaces = <<>>
    /\ aggregation = None
    /\ swaps = <<>>
    /\ host = <<>>
    /\ channels = <<>>
    /\ chan_lock = None
    /\ weight_manager = <<>>
    /\ weights_file = <<>>
    /\ wg_addr = None
    /\ poller = <<>>
    /\ ingress = <<>>
    /\ mgmt = <<>>
    /\ sent = <<>>
    /\ hist = <<>>
    /\ client_cfg = <<>>
    /\ tasks = <<>>
    /\ forwarded = <<>>
    /\ locks = <<>>
    /\ server = <<>>

MirrorCall ==
    /\ algorithm = "Mirror"
    /\ ncalls < MaxCalls
    /\ \E pkt_len \in PktLens :
       \E r \in {Mirror_select_paths(pkt_len, links)} :
          /\ links' = r.links
          /\ last' = [pkt_len |-> pkt_len, pre |-> links, result |-> r.result,
                      delegated |-> FALSE, fallback |-> <<>>,
                      pre_metrics |-> metrics]
    /\ ncalls' = ncalls + 1
    /\ UNCHANGED <<algorithm, min_links_for_aggregation, config, entries,
                   cache, metrics>>
    /\ UNCHANGED <<fairVars, clientVars>>
    /\ UNCHANGED linkVars

WrrCall ==
    /\ algorithm = "WeightedRoundRobin"
    /\ ncalls < MaxCalls
    /\ \E pkt_len \in PktLens :
       \E r \in {Wrr_select_paths(entries, pkt_len, links)} :
          /\ links' = r.links
          /\ entries' = r.entries
          /\ cache' = r.cache
          /\ last' = [pkt_len |-> pkt_len, pre |-> links, result |-> r.result,
                      delegated |-> FALSE, fallback |-> <<>>,
                      pre_metrics |-> metrics]
    /\ ncalls' = ncalls + 1
    /\ UNCHANGED <<algorithm, min_links_for_aggregation, config, metrics>>
    /\ UNCHANGED <<fairVars, clientVars>>
    /\ UNCHANGED linkVars

Replica2Call ==
    /\ algorithm = "Replica2Weighted"
    /\ ncalls < MaxCalls
    /\ \E pkt_len \in PktLens :
       \E r \in {Replica2_select_paths(min_links_for_aggregation, config,
                    metrics, [entries |-> entries, cache |-> cache],
                    pkt_len, links)} :
          /\ links' = r.links
          /\ entries' = r.entries
          /\ cache' = r.cache
          /\ metrics' = r.metrics
          /\ last' = [pkt_len |-> pkt_len, pre |-> links, result |-> r.result,
                      delegated |-> r.delegated, fallback |-> r.fallback,
                      pre_metrics |-> metrics]
    /\ ncalls' = ncalls + 1
    /\ UNCHANGED <<algorithm, min_links_for_aggregation, config>>
    /\ UNCHANGED <<fairVars, clientVars>>
    /\ UNCHANGED linkVars

SchedNext == MirrorCall \/ WrrCall \/ Replica2Call

SpecSched == SchedInit /\ [][SchedNext]_vars

\* ----------------------------------------------- claims on the schedulers
Called == ncalls > 0

\* a link is eligible: up and tokens >= pkt_len
Eligible(l, pkt_len) == l.up /\ l.tokens >= pkt_len

NEligible == Cardinality({i \in DOMAIN last.pre : Eligible(last.pre[i], last.pkt_len)})

NUp == Cardinality({i \in DOMAIN last.pre : last.pre[i].up})

\* max(min_links_for_aggregation, 3)
Floor3 == IF min_links_for_aggregation > 3 THEN min_links_for_aggregation ELSE 3

Replica2Called == Called /\ algorithm = "Replica2Weighted"

TwoDistinct(r) == Len(r) = 2 /\ r[1] # r[2]

\* C1 as claimed: Replica2 with at least 3 eligible links returns exactly two
\* different ids, for every min_links_for_aggregation.
C1_Original ==
    (Replica2Called /\ NEligible >= 3) => TwoDistinct(last.result)

\* C1 amended: Replica2 with at least 3 eligible links and at least
\* max(min_links_for_aggregation, 3) up links returns exactly two different ids.
C1_TwoDistinctWhenEnoughUp ==
    (Replica2Called /\ NEligible >= 3 /\ NUp >= Floor3)
        => TwoDistinct(last.result)

C1_Witness ==
    /\ Replica2Called /\ NEligible >= 3 /\ NUp >= Floor3
    /\ ~last.delegated
    /\ TwoDistinct(last.result)

\* C2 as claimed: Replica2 with 1 or 2 eligible links returns exactly one id,
\* whatever the number of up links.
C2_Original ==
    (Replica2Called /\ NEligible \in {1, 2}) => Len(last.result) = 1

\* C2 amended: with 1 or 2 eligible links, a call that is not delegated (at
\* least max(min_links_for_aggregation, 3) links up) returns as many ids as
\* there are eligible links, and a delegated call returns at most one id.
C2_OnePerEligibleOrFallback ==
    (Replica2Called /\ NEligible \in {1, 2})
        => IF NUp >= Floor3
           THEN Len(last.result) = NEligible
           ELSE Len(last.result) <= 1

C2_Witness ==
    /\ Replica2Called /\ NEligible = 2 /\ NUp >= Floor3
    /\ Len(last.result) = 2

\* C3 as claimed: Replica2 returns an empty result only when no link is
\* eligible, for every combination of weights.
C3_Original ==
    (Replica2Called /\ last.result = <<>>) => NEligible = 0

\* C3 amended: Replica2 returns an empty result only when no link is eligible,
\* or when the call is delegated for lack of up links and no eligible link
\* has a positive weight.
C3_EmptyOnlyWithoutPositiveEligible ==
    (Replica2Called /\ last.result = <<>>)
        => \/ NEligible = 0
           \/ /\ NUp < Floor3
              /\ \A i \in DOMAIN last.pre :
                    Eligible(last.pre[i], last.pkt_len) => last.pre[i].weight <= 0

C3_Witness ==
    /\ Replica2Called /\ last.result = <<>>
    /\ NEligible > 0 /\ NUp < Floor3

\* C4: Mirror returns exactly the ids of the eligible links, each once.
C4_MirrorReturnsEligible ==
    (Called /\ algorithm = "Mirror")
        => /\ Range(last.result) =
                {last.pre[i].id : i \in {j \in DOMAIN last.pre :
                                           Eligible(last.pre[j], last.pkt_len)}}
           /\ \A i, j \in DOMAIN last.result :
                 last.result[i] = last.result[j] => i = j

C4_Witness ==
    /\ Called /\ algorithm = "Mirror"
    /\ Len(last.result) >= 2
    /\ Len(last.result) < Len(last.pre)
    /\ \E i \in DOMAIN last.pre : last.pre[i].up /\ last.pre[i].tokens < last.pkt_len

\* C5: after select_paths of any scheduler, every link whose id is returned
\* has its tokens lowered by exactly pkt_len.
C5_ReturnedLinksPayPktLen ==
    Called =>
        \A i \in DOMAIN links :
            links[i].id \in Range(last.result)
                => links[i].tokens = last.pre[i].tokens - last.pkt_len

C5_Witness ==
    /\ Replica2Called /\ last.delegated /\ Len(last.result) = 1
    /\ \E i \in DOMAIN links :
          /\ links[i].id = last.result[1]
          /\ links[i].tokens = last.pre[i].tokens - last.pkt_len
          /\ last.pkt_len = 2

\* C6: select_paths of any scheduler changes nothing in the slice but the
\* tokens of the returned links.
C6_OnlyReturnedTokensChange ==
    Called =>
        /\ DOMAIN links = DOMAIN last.pre
        /\ \A i \in DOMAIN links :
              /\ [links[i] EXCEPT !.tokens = last.pre[i].tokens] = last.pre[i]
              /\ links[i].id \notin Range(last.result) => links[i] = last.pre[i]

C6_Witness ==
    /\ Called /\ algorithm = "WeightedRoundRobin" /\ Len(last.result) = 1
    /\ \E i \in DOMAIN links :
          /\ links[i].id # last.result[1]
          /\ Eligible(last.pre[i], last.pkt_len)
          /\ links[i] = last.pre[i]
    /\ \E i \in DOMAIN links : links[i] # last.pre[i]

\* C16: a Replica2 call with fewer than max(min_links_for_aggregation, 3)
\* links up is delegated to the fallback: its result is what the fallback
\* returned, at most one id; replica2_fallbacks grows by exactly 1 and
\* replica2_primary and replica2_secondary keep their values.
C16_FewUpLinksDelegate ==
    (Replica2Called /\ NUp < Floor3) =>
        /\ last.fallback = <<last.result>>
        /\ Len(last.result) <= 1
        /\ metrics.replica2_fallbacks = last.pre_metrics.replica2_fallbacks + 1
        /\ metrics.replica2_primary = last.pre_metrics.replica2_primary
        /\ metrics.replica2_secondary = last.pre_metrics.replica2_secondary

\* three links up under min_links_for_aggregation = 4: the second delegated
\* call in a row returns one id
C16_Witness ==
    /\ Replica2Called /\ min_links_for_aggregation = 4 /\ NUp = 3
    /\ last.fallback = <<last.result>> /\ Len(last.result) = 1
    /\ metrics.replica2_fallbacks = 2

\* the up links that lack the tokens for the datagram
NoTokenUp ==
    {i \in DOMAIN last.pre : last.pre[i].up /\ last.pre[i].tokens < last.pkt_len}

BpsOr1(l) == IF l.send_bps > 0 THEN l.send_bps ELSE 1

\* rtt_alpha * srtt + queue_penalty_scale * inflight / max(send_bps, 1)
\* + loss * loss_penalty, times BpsOr1(l) * LossDen
EtaBase(l) ==
    config.rtt_alpha * l.smoothed_rtt * BpsOr1(l) * LossDen
    + config.queue_penalty_scale * l.inflight_bytes * LossDen
    + l.loss * config.loss_penalty * BpsOr1(l)

\* eta = EtaNum / EtaDen: the base divided by max(weight, 0.1) when
\* use_weights is set
EtaNum(l) == EtaBase(l) * (IF config.use_weights /\ l.weight < 1 THEN 10 ELSE 1)

EtaDen(l) ==
    BpsOr1(l) * LossDen * (IF config.use_weights /\ l.weight >= 1 THEN l.weight ELSE 1)

\* a comes before b under (eta ascending, id ascending)
RanksBefore(a, b) ==
    \/ EtaNum(a) * EtaDen(b) < EtaNum(b) * EtaDen(a)
    \/ /\ EtaNum(a) * EtaDen(b) = EtaNum(b) * EtaDen(a)
       /\ a.id < b.id

EligibleAt == {i \in DOMAIN last.pre : Eligible(last.pre[i], last.pkt_len)}

\* the position of the link that comes before all others of S
FirstOf(S) == CHOOSE i \in S : \A j \in S \ {i} : RanksBefore(last.pre[i], last.pre[j])

\* the two smallest eligible links under (eta, id), in order
TwoSmallest ==
    <<last.pre[FirstOf(EligibleAt)].id,
      last.pre[FirstOf(EligibleAt \ {FirstOf(EligibleAt)})].id>>

\* the same rtt, queue and loss components
SameComponents(a, b) ==
    /\ a.smoothed_rtt = b.smoothed_rtt /\ a.loss = b.loss
    /\ a.inflight_bytes = b.inflight_bytes /\ a.send_bps = b.send_bps

\* in the result, a is not behind b
ReturnedFirst(a, b) ==
    \A q \in DOMAIN last.result :
        last.result[q] = b.id =>
            \E p \in DOMAIN last.result : p < q /\ last.result[p] = a.id

\* C18 as claimed: Replica2 with at least 2 eligible candidates returns, in
\* order, the two smallest under (eta, id); and under use_weights, of two
\* eligible links with equal rtt, queue and loss and a positive eta, the one
\* with the higher weight ranks first.
C18_Original ==
    (Replica2Called /\ NUp >= Floor3 /\ NEligible >= 2) =>
        /\ last.result = TwoSmallest
        /\ config.use_weights =>
             \A i, j \in EligibleAt :
                (/\ SameComponents(last.pre[i], last.pre[j])
                 /\ EtaBase(last.pre[i]) > 0
                 /\ last.pre[i].weight > last.pre[j].weight)
                    => ReturnedFirst(last.pre[i], last.pre[j])

\* C18 amended: Replica2 with at least 2 eligible candidates returns, in
\* order, the two smallest under (eta, id); and under use_weights, of two
\* eligible links with equal rtt, queue and loss and a positive eta, the one
\* with the higher weight ranks first when that weight is above the floor of
\* 0.1 (weights at or below the floor count the same, and the id decides).
C18_TwoSmallestByEta ==
    (Replica2Called /\ NUp >= Floor3 /\ NEligible >= 2) =>
        /\ last.result = TwoSmallest
        /\ config.use_weights =>
             \A i, j \in EligibleAt :
                (/\ SameComponents(last.pre[i], last.pre[j])
                 /\ EtaBase(last.pre[i]) > 0
                 /\ last.pre[i].weight > last.pre[j].weight
                 /\ last.pre[i].weight >= 1)
                    => ReturnedFirst(last.pre[i], last.pre[j])

\* the link of weight 2 and id 2 is returned ahead of its twin of weight 1
\* and id 1, and the third eligible link is left out
C18_Witness ==
    /\ Replica2Called /\ NUp >= Floor3 /\ NEligible = 3 /\ config.use_weights
    /\ last.result = <<2, 1>>
    /\ \E i, j \in EligibleAt :
          /\ last.pre[i].id = 2 /\ last.pre[i].weight = 2
          /\ last.pre[j].id = 1 /\ last.pre[j].weight = 1
          /\ SameComponents(last.pre[i], last.pre[j])

\* C19 as claimed: a link with weight <= 0 is never in the result of
\* WeightedRoundRobin's select_paths nor of Replica2's, delegated or not.
C19_Original ==
    (Called /\ algorithm \in {"WeightedRoundRobin", "Replica2Weighted"}) =>
        \A i \in DOMAIN last.pre :
            last.pre[i].weight <= 0 => last.pre[i].id \notin Range(last.result)


\* ------------------------- SpecWrr: select_paths on a slice that changes
\* WeightedRoundRobinScheduler called again and again by a caller that, between
\* two calls, takes a link down or up, changes its weight or refills or drains
\* its tokens.  hist.pre_entries holds the entries as the latest call found
\* them, hist.prev_pre the slice of the call before the latest, hist.nedits
\* the number of changes made to the slice.
WrrSlices ==
    {[i \in DOMAIN ids |-> LinkState(ids[i], TRUE, 1, 2)] :
        ids \in {<<2, 1>>, <<1, 3, 2>>}}

WrrInit ==
    /\ algorithm = "WeightedRoundRobin"
    /\ min_links_for_aggregation = 1
    /\ config = Replica2WeightedConfigDefault
    /\ links \in WrrSlices
    /\ entries = <<>>
    /\ cache = <<>>
    /\ metrics = SchedulerMetricsDefault
    /\ last = NoCall
    /\ ncalls = 0
    /\ rr_state = WeightedRoundRobinStateNew
    /\ picks = <<>>
    /\ excluded_interfaces = <<>>
    /\ aggregation = None
    /\ swaps = <<>>
    /\ host = <<>>
    /\ channels = <<>>
    /\ chan_lock = None
    /\ weight_manager = <<>>
    /\ weights_file = <<>>
    /\ wg_addr = None
    /\ poller = <<>>
    /\ ingress = <<>>
    /\ mgmt = <<>>
    /\ sent = <<>>
    /\ hist = [nedits |-> 0, pre_entries |-> <<>>, prev_pre |-> <<>>]
    /\ client_cfg = <<>>
    /\ tasks = <<>>
    /\ forwarded = <<>>
    /\ locks = <<>>
    /\ server = <<>>

\* the caller changes one field of one link of the slice
LinkEdit ==
    /\ hist.nedits < MaxLinkEdits
    /\ \E i \in DOMAIN links :
         \/ links' = [links EXCEPT ![i].up = ~@]
         \/ \E w \in WeightValues \ {links[i].weight} :
              links' = [links EXCEPT ![i].weight = w]
         \/ \E t \in (TokenValues \cup {0}) \ {links[i].tokens} :
              links' = [links EXCEPT ![i].tokens = t]
    /\ hist' = [hist EXCEPT !.nedits = @ + 1]
    /\ UNCHANGED <<algorithm, min_links_for_aggregation, config, entries, cache,
                   metrics, last, ncalls, fairVars>>
    /\ UNCHANGED <<excluded_interfaces, aggregation, swaps, host, channels,
                   chan_lock, weight_manager, weights_file, wg_addr, poller,
                   ingress, mgmt, sent>>
    /\ UNCHANGED linkVars

\* WeightedRoundRobinScheduler::select_paths
WrrSelect ==
    /\ ncalls < MaxWrrCalls
    /\ \E pkt_len \in PktLens :
       \E r \in {Wrr_select_paths(entries, pkt_len, links)} :
          /\ links' = r.links
          /\ entries' = r.entries
          /\ cache' = r.cache
          /\ last' = [pkt_len |-> pkt_len, pre |-> links, result |-> r.result,
                      delegated |-> FALSE, fallback |-> <<>>,
                      pre_metrics |-> metrics]
    /\ hist' = [hist EXCEPT !.pre_entries = entries, !.prev_pre = last.pre]
    /\ ncalls' = ncalls + 1
    /\ UNCHANGED <<algorithm, min_links_for_aggregation, config, metrics,
                   fairVars>>
    /\ UNCHANGED <<excluded_interfaces, aggregation, swaps, host, channels,
                   chan_lock, weight_manager, weights_file, wg_addr, poller,
                   ingress, mgmt, sent>>
    /\ UNCHANGED linkVars

WrrNext == LinkEdit \/ WrrSelect

SpecWrr == WrrInit /\ [][WrrNext]_vars

\* ------------------------------------------ WeightedRoundRobinState (main.rs)
\* the Option as a sequence: empty (None) when the weight is not positive
WeightedServerNew(name, weight) ==
    IF weight <= 0 THEN <<>>
    ELSE <<[name |-> name, weight |-> weight, current_weight |-> 0]>>

\* weights: a function from interface names to weights (the weights_for map)
RECURSIVE RebuildServers(_, _)
RebuildServers(interfaces, weights) ==
    IF interfaces = <<>> THEN <<>>
    ELSE LET name == Head(interfaces)
             rest == RebuildServers(Tail(interfaces), weights)
         IN IF name \in DOMAIN weights
            THEN WeightedServerNew(name, weights[name]) \o rest
            ELSE rest

\* mutant: the version is not compared
WrrState_rebuild_SignatureOnly(st, interfaces, weights, version) ==
    IF interfaces = st.signature THEN st
    ELSE LET servers == RebuildServers(interfaces, weights)
         IN [servers |-> servers,
             total_weight |-> SumSeq([i \in DOMAIN servers |-> servers[i].weight]),
             last_version |-> version,
             signature |-> interfaces]

WrrState_rebuild(st, interfaces, weights, version) ==
    IF version = st.last_version /\ interfaces = st.signature THEN st
    ELSE LET servers == RebuildServers(interfaces, weights)
         IN [servers |-> servers,
             total_weight |-> SumSeq([i \in DOMAIN servers |-> servers[i].weight]),
             last_version |-> version,
             signature |-> interfaces]

\* the loop of next_interface from server idx on; best_index 0 is None
RECURSIVE ServerScan(_, _, _, _)
ServerScan(servers, idx, best_index, best_weight) ==
    IF idx > Len(servers) THEN [servers |-> servers, best_index |-> best_index]
    ELSE LET cw == servers[idx].current_weight + servers[idx].weight
             s2 == [servers EXCEPT ![idx].current_weight = cw]
         IN IF best_index = 0 \/ cw > best_weight
            THEN ServerScan(s2, idx + 1, idx, cw)
            ELSE ServerScan(s2, idx + 1, best_index, best_weight)

\* mutant: the winner keeps its accumulated weight
WrrState_next_interface_NoSubtract(st) ==
    IF st.servers = <<>> \/ st.total_weight <= 0
    THEN [state |-> st, chosen |-> None]
    ELSE LET sc == ServerScan(st.servers, 1, 0, 0)
         IN [state |-> [st EXCEPT !.servers = sc.servers],
             chosen |-> sc.servers[sc.best_index].name]

WrrState_next_interface(st) ==
    IF st.servers = <<>> \/ st.total_weight <= 0
    THEN [state |-> st, chosen |-> None]
    ELSE LET sc == ServerScan(st.servers, 1, 0, 0)
         IN IF sc.best_index = 0 THEN [state |-> [st EXCEPT !.servers = sc.servers],
                                       chosen |-> None]
            ELSE [state |-> [st EXCEPT !.servers =
                               [sc.servers EXCEPT ![sc.best_index].current_weight =
                                                     @ - st.total_weight]],
                  chosen |-> sc.servers[sc.best_index].name]

\* ------------------------------------------------- SpecFair: smooth WRR
\* interface names in sorted order; the link of FairNames[i] has path id i
FairNames == <<"eth0", "eth1", "eth2">>

MaxOf(S) == CHOOSE x \in S : \A y \in S : y <= x

\* the caller refills the token buckets before a call
RefillTokens(ls) == [i \in DOMAIN ls |-> [ls[i] EXCEPT !.tokens = MaxOf(TokenValues)]]

\* the weights_for map of the links' weights
FairWeightsMap == [name \in Range(FairNames) |->
                     picks.weights[CHOOSE i \in DOMAIN FairNames : FairNames[i] = name]]

FairTotal == SumSeq(picks.weights)

\* links that are up with fixed positive integer weights, and both
\* implementations freshly constructed
FairInit ==
    /\ algorithm = "WeightedRoundRobin"
    /\ min_links_for_aggregation = 1
    /\ config = Replica2WeightedConfigDefault
    /\ \E w \in [DOMAIN FairNames -> 1..MaxWeight] :
          /\ links = [i \in DOMAIN FairNames |-> LinkState(i, TRUE, w[i], MaxOf(TokenValues))]
          /\ picks = [weights |-> w,
                      sched |-> [i \in DOMAIN FairNames |-> 0],
                      state |-> [i \in DOMAIN FairNames |-> 0]]
    /\ entries = <<>>
    /\ cache = <<>>
    /\ metrics = SchedulerMetricsDefault
    /\ last = NoCall
    /\ ncalls = 0
    /\ rr_state = WeightedRoundRobinStateNew
    /\ excluded_interfaces = <<>>
    /\ aggregation = None
    /\ swaps = <<>>
    /\ host = <<>>
    /\ channels = <<>>
    /\ chan_lock = None
    /\ weight_manager = <<>>
    /\ weights_file = <<>>
    /\ wg_addr = None
    /\ poller = <<>>
    /\ ingress = <<>>
    /\ mgmt = <<>>
    /\ sent = <<>>
    /\ hist = <<>>
    /\ client_cfg = <<>>
    /\ tasks = <<>>
    /\ forwarded = <<>>
    /\ locks = <<>>
    /\ server = <<>>

\* one iteration of the caller's loop: refill, then select_paths
FairSelect ==
    /\ SumSeq(picks.sched) < MaxRounds * FairTotal
    /\ \E pkt_len \in PktLens :
       \E r \in {Wrr_select_paths(entries, pkt_len, RefillTokens(links))} :
          /\ links' = r.links
          /\ entries' = r.entries
          /\ cache' = r.cache
          /\ last' = [pkt_len |-> pkt_len, pre |-> RefillTokens(links),
                      result |-> r.result, delegated |-> FALSE,
                      fallback |-> <<>>, pre_metrics |-> metrics]
          /\ picks' = [picks EXCEPT !.sched =
                         [i \in DOMAIN @ |->
                            IF i \in Range(r.result) THEN @[i] + 1 ELSE @[i]]]
    /\ ncalls' = ncalls + 1
    /\ UNCHANGED <<algorithm, min_links_for_aggregation, config, metrics,
                   rr_state, clientVars>>
    /\ UNCHANGED linkVars

\* the selection made for one datagram: rebuild, then next_interface
FairNextInterface ==
    /\ SumSeq(picks.state) < MaxRounds * FairTotal
    /\ \E n \in {WrrState_next_interface(
                    WrrState_rebuild(rr_state, FairNames, FairWeightsMap, 1))} :
          /\ rr_state' = n.state
          /\ picks' = [picks EXCEPT !.state =
                         [i \in DOMAIN @ |->
                            IF FairNames[i] = n.chosen THEN @[i] + 1 ELSE @[i]]]
    /\ UNCHANGED <<schedVars, clientVars>>
    /\ UNCHANGED linkVars

FairNext == FairSelect \/ FairNextInterface

SpecFair == FairInit /\ [][FairNext]_vars

\* C7: smooth WRR over links that stay up with tokens and fixed positive
\* integer weights: after every whole number of runs of W = sum of the weights
\* selections from the freshly built state, link i has been selected w_i times
\* per run, by WeightedRoundRobinScheduler.select_paths and by
\* WeightedRoundRobinState.next_interface alike.
C7_WrrSelectsInProportion ==
    \A k \in 1..MaxRounds :
        /\ SumSeq(picks.sched) = k * FairTotal
              => \A i \in DOMAIN picks.weights : picks.sched[i] = k * picks.weights[i]
        /\ SumSeq(picks.state) = k * FairTotal
              => \A i \in DOMAIN picks.weights : picks.state[i] = k * picks.weights[i]

C7_Witness ==
    /\ picks.weights = <<3, 1, 1>>
    /\ picks.sched = <<3, 1, 1>>
    /\ picks.state = <<3, 1, 1>>


\* ======================================================= the client (main.rs)
IfNames == {"eth0", "eth1"}
SortedNames == <<"eth0", "eth1">>

\* Vec::sort of a set of names
SortNames(S) == SelectSeq(SortedNames, LAMBDA n : n \in S)

\* ------------------------------------------------------ exclusion swaps
is_swapped(sw, name) == IF name \in DOMAIN sw THEN sw[name] ELSE FALSE

\* mutant: a configured exclusion ignores the swap
is_excluded_NoSwapOnConfigured(name, excl, sw) ==
    IF \E i \in DOMAIN excl : excl[i] = name THEN TRUE ELSE is_swapped(sw, name)

RECURSIVE is_excluded(_, _, _)
is_excluded(name, excl, sw) ==
    IF excl = <<>> THEN is_swapped(sw, name)
    ELSE IF Head(excl) = name THEN ~is_swapped(sw, name)
    ELSE is_excluded(name, Tail(excl), sw)

\* mutant: the entry is set and never removed
swap_exclusion_AlwaysSet(sw, ifname) ==
    [n \in DOMAIN sw \cup {ifname} |-> IF n = ifname THEN TRUE ELSE sw[n]]

swap_exclusion(sw, ifname) ==
    IF is_swapped(sw, ifname)
    THEN [n \in DOMAIN sw \ {ifname} |-> sw[n]]
    ELSE [n \in DOMAIN sw \cup {ifname} |-> IF n = ifname THEN TRUE ELSE sw[n]]

\* mutant: the swap set is left as it is
reset_exclusions_Kept(sw) == sw

reset_exclusions(sw) == [n \in {} |-> TRUE]

\* ------------------------------------------------------ host interfaces
\* what get_if_addrs() lists for one interface: its addresses in order; an
\* interface without address is not listed
Addr(fam, prefix, ip) == [fam |-> fam, prefix |-> prefix, ip |-> ip]

\* the network of each interface
NetOf == [eth0 |-> "10.0.0.", eth1 |-> "10.0.1."]

HostAddrLists(name) ==
    {<<>>,
     <<Addr("v6", "fe80", "fe80::1")>>,
     <<Addr("v4", "169.254.", "169.254.1.1"), Addr("v4", "10.", NetOf[name] \o "1")>>,
     <<Addr("v4", "10.", NetOf[name] \o "2")>>}

interface_exists(h, ifname) == ifname \in DOMAIN h /\ h[ifname] # <<>>

\* the Option as a sequence: <<ip>> or <<>>
RECURSIVE FirstUsableV4(_)
FirstUsableV4(addrs) ==
    IF addrs = <<>> THEN <<>>
    ELSE IF Head(addrs).fam = "v4" /\ Head(addrs).prefix \notin {"169.254.", "127."}
         THEN <<Head(addrs).ip>>
         ELSE FirstUsableV4(Tail(addrs))

get_address_by_interface(h, ifname) ==
    IF ifname \in DOMAIN h THEN FirstUsableV4(h[ifname]) ELSE <<>>

\* ClientConfig: dst_addr and dst_overrides
ClientCfg == [dst_addr |-> "srv:59501",
              dst_overrides |-> <<[if_name |-> "eth1", dst_addr |-> "srv1:59501"]>>]

RECURSIVE DstScan(_, _, _)
DstScan(ifname, overrides, dflt) ==
    IF overrides = <<>> THEN dflt
    ELSE IF Head(overrides).if_name = ifname THEN Head(overrides).dst_addr
    ELSE DstScan(ifname, Tail(overrides), dflt)

get_dst_by_ifname(ifname, cfg) == DstScan(ifname, cfg.dst_overrides, cfg.dst_addr)

\* ------------------------------------------------------- WeightManager
\* The file: whether it exists, the mapping it holds, its mtime, whether it
\* can be written, and its form: "ok", "noaccess" (its metadata cannot be
\* read), "unreadable" (read_to_string fails) or "unparsable" (not a YAML
\* mapping of names to numbers); an empty file is "ok" with no entry.  The
\* manager's last_modified is an Option as a sequence.
NoWeights == [n \in {} |-> 0]

\* f64 weights: a finite weight is the integer of its value; the three
\* non-finite values have codes outside the finite weights, and every
\* comparison of a stored weight goes through F64LeZero
F64NaN == 1000
F64PosInf == 999
F64NegInf == -999

F64Finite(w) == w \notin {F64NaN, F64PosInf, F64NegInf}

\* weight <= 0.0: false of NaN and of +infinity, true of -infinity
F64LeZero(w) == w # F64NaN /\ w # F64PosInf /\ (w = F64NegInf \/ w <= 0)

WeightManagerEmpty == [weights |-> NoWeights, version |-> 0, last_modified |-> <<>>]

\* mutant: a file that is gone counts as a reload
reload_if_needed_BumpOnMissing(wm, file) ==
    IF file.form = "noaccess" THEN wm
    ELSE IF ~file.exists
    THEN [wm EXCEPT !.weights = NoWeights, !.last_modified = <<>>,
                    !.version = @ + 1]
    ELSE IF wm.last_modified # <<>> /\ wm.last_modified = <<file.mtime>>
    THEN wm
    ELSE IF file.form \in {"unreadable", "unparsable"} THEN wm
    ELSE [weights |-> file.contents, version |-> wm.version + 1,
          last_modified |-> <<file.mtime>>]

\* mutant: the entries of a file that does not parse are applied
reload_if_needed_Partial(wm, file) ==
    IF file.form = "noaccess" THEN wm
    ELSE IF ~file.exists
    THEN [wm EXCEPT !.weights = NoWeights, !.last_modified = <<>>]
    ELSE IF wm.last_modified # <<>> /\ wm.last_modified = <<file.mtime>>
    THEN wm
    ELSE IF file.form = "unreadable" THEN wm
    ELSE IF file.form = "unparsable" THEN [wm EXCEPT !.weights = file.contents]
    ELSE [weights |-> file.contents, version |-> wm.version + 1,
          last_modified |-> <<file.mtime>>]

reload_if_needed(wm, file) ==
    IF file.form = "noaccess" THEN wm
    ELSE IF ~file.exists
    THEN [wm EXCEPT !.weights = NoWeights, !.last_modified = <<>>]
    ELSE IF wm.last_modified # <<>> /\ wm.last_modified = <<file.mtime>>
    THEN wm
    ELSE IF file.form \in {"unreadable", "unparsable"} THEN wm
    ELSE [weights |-> file.contents, version |-> wm.version + 1,
          last_modified |-> <<file.mtime>>]

\* WeightManager::new
WeightManagerNew(file) == reload_if_needed(WeightManagerEmpty, file)

\* mutant: the saved file's mtime is not cached
save_internal_StaleMtime(wm, file) ==
    IF ~file.writable THEN [wm |-> wm, file |-> file, ok |-> FALSE]
    ELSE [wm |-> [wm EXCEPT !.version = @ + 1],
          file |-> [file EXCEPT !.exists = TRUE, !.form = "ok",
                                !.contents = wm.weights, !.mtime = @ + 1],
          ok |-> TRUE]

\* the manager and the file after save_internal, and whether it returned Ok
save_internal(wm, file) ==
    IF ~file.writable THEN [wm |-> wm, file |-> file, ok |-> FALSE]
    ELSE [wm |-> [wm EXCEPT !.last_modified = <<file.mtime + 1>>, !.version = @ + 1],
          file |-> [file EXCEPT !.exists = TRUE, !.form = "ok",
                                !.contents = wm.weights, !.mtime = @ + 1],
          ok |-> TRUE]

ensure_interfaces(wm, file, interfaces) ==
    LET wm1 == reload_if_needed(wm, file)
        missing == {interfaces[i] : i \in DOMAIN interfaces} \ DOMAIN wm1.weights
        wm2 == [wm1 EXCEPT !.weights =
                  [n \in DOMAIN wm1.weights \cup missing |->
                     IF n \in DOMAIN wm1.weights THEN wm1.weights[n] ELSE 1]]
    IN IF missing # {} THEN save_internal(wm2, file)
       ELSE [wm |-> wm1, file |-> file, ok |-> TRUE]

weights_for(wm, file, interfaces) ==
    LET wm1 == reload_if_needed(wm, file)
    IN [wm |-> wm1,
        map |-> [n \in {interfaces[i] : i \in DOMAIN interfaces} |->
                   LET weight == IF n \in DOMAIN wm1.weights THEN wm1.weights[n] ELSE 1
                   IN IF F64LeZero(weight) THEN 0 ELSE weight]]

\* -------------------------------------------------------------- SpecClient
\* The client of main(): the interface poller, the downstream ingress and the
\* management handlers run concurrently over the link table, the swap set,
\* the weight manager and the host's interfaces.
ExcludedLists == {<<>>, <<"eth1">>}
Aggregations == {"MirrorAll", "WeightedRoundRobin", "Hybrid"}
WgSources == {"127.0.0.1:40001"}
NoFile == [exists |-> FALSE, form |-> "ok", contents |-> NoWeights, mtime |-> 0,
           writable |-> TRUE]
NoSwaps == [n \in {} |-> TRUE]
NoChannels == [n \in {} |-> [src_addr |-> "", dst_addr |-> ""]]

\* the host's interfaces as the client starts
HostInits ==
    {[n \in IfNames |->
        IF n = "eth0"
        THEN <<Addr("v4", "169.254.", "169.254.1.1"), Addr("v4", "10.", NetOf[n] \o "1")>>
        ELSE <<Addr("v4", "10.", NetOf[n] \o "2")>>]}

\* get_if_addrs(): one entry per address, by interface
RECURSIVE IfaceEntries(_, _)
IfaceEntries(h, names) ==
    IF names = <<>> THEN <<>>
    ELSE [i \in DOMAIN h[Head(names)] |-> Head(names)] \o IfaceEntries(h, Tail(names))

get_if_addrs(h) == IfaceEntries(h, SortedNames)

NoWrite == [op |-> "none", name |-> "", before |-> NoSwaps]

\* the latest completed management call (see Audited)
Brief(d) == [op |-> d.op, name |-> d.name, after |-> d.after, wseq |-> d.wseq,
             wrote |-> d.wrote, atomic |-> d.atomic]

NoDone ==
    [op |-> "none", name |-> "", found |-> NoSwaps, after |-> NoSwaps, wseq |-> 0,
     wrote |-> FALSE, atomic |-> FALSE, clean |-> FALSE,
     prior |-> [op |-> "none", name |-> "", after |-> NoSwaps, wseq |-> 0,
                wrote |-> FALSE, atomic |-> FALSE]]

MgmtIdle == [pending |-> <<>>,
             list |-> [pc |-> "idle", ifaces |-> <<>>, interfaces |-> <<>>],
             response |-> <<>>]
PollerIdle == [pc |-> "tick", keys |-> <<>>, ifaces |-> <<>>, ifname |-> "", ip |-> ""]
IngressIdle == [pc |-> "recv", n |-> 0, src |-> "", snapshot |-> NoChannels,
                selected |-> None]

ClientInit ==
    /\ algorithm = None
    /\ min_links_for_aggregation = 0
    /\ config = Replica2WeightedConfigDefault
    /\ links = <<>>
    /\ entries = <<>>
    /\ cache = <<>>
    /\ metrics = SchedulerMetricsDefault
    /\ last = NoCall
    /\ ncalls = 0
    /\ picks = <<>>
    /\ excluded_interfaces \in ExcludedLists
    /\ aggregation \in Aggregations
    /\ host \in HostInits
    /\ swaps = NoSwaps
    /\ channels = NoChannels
    /\ chan_lock = None
    /\ wg_addr = <<>>
    /\ weights_file = NoFile
    /\ weight_manager = WeightManagerNew(NoFile)
    /\ rr_state = WeightedRoundRobinStateNew
    /\ poller = PollerIdle
    /\ ingress = IngressIdle
    /\ mgmt = MgmtIdle
    /\ sent = <<>>
    /\ hist = [last |-> NoWrite, prev |-> NoWrite, nevents |-> 0,
               audit |-> FALSE, done |-> NoDone, nwrites |-> 0]
    /\ client_cfg = ClientCfg
    /\ tasks = <<>>
    /\ forwarded = <<>>
    /\ locks = <<>>
    /\ server = <<>>

\* ---- the host
HostChange ==
    /\ hist.nevents < MaxEvents
    /\ \E name \in IfNames : \E addrs \in HostAddrLists(name) \ {host[name]} :
         host' = [host EXCEPT ![name] = addrs]
    /\ hist' = [hist EXCEPT !.nevents = @ + 1]
    /\ UNCHANGED <<schedVars, fairVars, excluded_interfaces, aggregation, swaps,
                   channels, chan_lock, weight_manager, weights_file, wg_addr,
                   poller, ingress, mgmt, sent>>
    /\ UNCHANGED linkVars

\* ---- update_available_interfaces
PollerEnumerate ==
    /\ poller.pc = "tick"
    /\ poller' = [poller EXCEPT !.pc = "lock", !.ifaces = get_if_addrs(host)]
    /\ UNCHANGED <<schedVars, fairVars, excluded_interfaces, aggregation, swaps,
                   host, channels, chan_lock, weight_manager, weights_file,
                   wg_addr, ingress, mgmt, sent, hist>>
    /\ UNCHANGED linkVars

PollerLock ==
    /\ poller.pc = "lock"
    /\ chan_lock = None
    /\ chan_lock' = "poller"
    /\ poller' = [poller EXCEPT !.pc = "remove", !.keys = SortNames(DOMAIN channels)]
    /\ UNCHANGED <<schedVars, fairVars, excluded_interfaces, aggregation, swaps,
                   host, channels, weight_manager, weights_file, wg_addr,
                   ingress, mgmt, sent, hist>>
    /\ UNCHANGED linkVars

\* whether the removal loop drops the routine of ifname
PollerDrops(ifname, routine) ==
    IF ~interface_exists(host, ifname)
       \/ is_excluded(ifname, excluded_interfaces, swaps)
    THEN TRUE
    ELSE LET current_ip == get_address_by_interface(host, ifname)
         IN current_ip # <<>> /\ current_ip[1] # routine.src_addr

PollerRemoveStep ==
    /\ poller.pc = "remove"
    /\ poller.keys # <<>>
    /\ LET ifname == Head(poller.keys)
       IN channels' = IF PollerDrops(ifname, channels[ifname])
                      THEN [n \in DOMAIN channels \ {ifname} |-> channels[n]]
                      ELSE channels
    /\ poller' = [poller EXCEPT !.keys = Tail(@)]
    /\ UNCHANGED <<schedVars, fairVars, excluded_interfaces, aggregation, swaps,
                   host, chan_lock, weight_manager, weights_file, wg_addr,
                   ingress, mgmt, sent, hist>>
    /\ UNCHANGED linkVars

PollerUnlock ==
    /\ poller.pc = "remove"
    /\ poller.keys = <<>>
    /\ chan_lock' = None
    /\ poller' = [poller EXCEPT !.pc = "add"]
    /\ UNCHANGED <<schedVars, fairVars, excluded_interfaces, aggregation, swaps,
                   host, channels, weight_manager, weights_file, wg_addr,
                   ingress, mgmt, sent, hist>>
    /\ UNCHANGED linkVars

PollerAddSkip ==
    /\ poller.pc = "add"
    /\ poller.ifaces # <<>>
    /\ LET ifname == Head(poller.ifaces)
       IN \/ is_excluded(ifname, excluded_interfaces, swaps)
          \/ ifname \in DOMAIN channels
          \/ get_address_by_interface(host, ifname) = <<>>
    /\ poller' = [poller EXCEPT !.ifaces = Tail(@)]
    /\ UNCHANGED <<schedVars, fairVars, excluded_interfaces, aggregation, swaps,
                   host, channels, chan_lock, weight_manager, weights_file,
                   wg_addr, ingress, mgmt, sent, hist>>
    /\ UNCHANGED linkVars

PollerAddNew ==
    /\ poller.pc = "add"
    /\ poller.ifaces # <<>>
    /\ LET ifname == Head(poller.ifaces)
           ip == get_address_by_interface(host, ifname)
       IN /\ ~is_excluded(ifname, excluded_interfaces, swaps)
          /\ ifname \notin DOMAIN channels
          /\ ip # <<>>
          /\ \E e \in {ensure_interfaces(weight_manager, weights_file, <<ifname>>)} :
               /\ weight_manager' = e.wm
               /\ weights_file' = e.file
          /\ poller' = [poller EXCEPT !.pc = "bind", !.ifaces = Tail(@),
                                      !.ifname = ifname, !.ip = ip[1]]
    /\ UNCHANGED <<schedVars, fairVars, excluded_interfaces, aggregation, swaps,
                   host, channels, chan_lock, wg_addr, ingress, mgmt, sent, hist>>
    /\ UNCHANGED linkVars

\* create_send_thread: the socket is bound and the routine tabled
PollerBindOk ==
    /\ poller.pc = "bind"
    /\ chan_lock = None
    /\ channels' = [n \in DOMAIN channels \cup {poller.ifname} |->
                      IF n = poller.ifname
                      THEN [src_addr |-> poller.ip,
                            dst_addr |-> get_dst_by_ifname(poller.ifname, ClientCfg)]
                      ELSE channels[n]]
    /\ poller' = [poller EXCEPT !.pc = "add", !.ifname = "", !.ip = ""]
    /\ UNCHANGED <<schedVars, fairVars, excluded_interfaces, aggregation, swaps,
                   host, chan_lock, weight_manager, weights_file, wg_addr,
                   ingress, mgmt, sent, hist>>
    /\ UNCHANGED linkVars

\* create_send_thread: the bind fails
PollerBindFail ==
    /\ poller.pc = "bind"
    /\ poller' = [poller EXCEPT !.pc = "add", !.ifname = "", !.ip = ""]
    /\ UNCHANGED <<schedVars, fairVars, excluded_interfaces, aggregation, swaps,
                   host, channels, chan_lock, weight_manager, weights_file,
                   wg_addr, ingress, mgmt, sent, hist>>
    /\ UNCHANGED linkVars

PollerSleep ==
    /\ poller.pc = "add"
    /\ poller.ifaces = <<>>
    /\ poller' = [poller EXCEPT !.pc = "tick"]
    /\ UNCHANGED <<schedVars, fairVars, excluded_interfaces, aggregation, swaps,
                   host, channels, chan_lock, weight_manager, weights_file,
                   wg_addr, ingress, mgmt, sent, hist>>
    /\ UNCHANGED linkVars

\* ---- receive_from_wireguard
IngressRecv ==
    /\ ingress.pc = "recv"
    /\ hist.nevents < MaxEvents
    /\ \E src \in WgSources :
         ingress' = [ingress EXCEPT !.pc = "set_addr", !.n = @ + 1, !.src = src]
    /\ hist' = [hist EXCEPT !.nevents = @ + 1]
    /\ UNCHANGED <<schedVars, fairVars, excluded_interfaces, aggregation, swaps,
                   host, channels, chan_lock, weight_manager, weights_file,
                   wg_addr, poller, mgmt, sent>>
    /\ UNCHANGED linkVars

IngressSetAddr ==
    /\ ingress.pc = "set_addr"
    /\ wg_addr' = <<ingress.src>>
    /\ ingress' = [ingress EXCEPT !.pc = "snapshot", !.src = ""]
    /\ UNCHANGED <<schedVars, fairVars, excluded_interfaces, aggregation, swaps,
                   host, channels, chan_lock, weight_manager, weights_file,
                   poller, mgmt, sent, hist>>
    /\ UNCHANGED linkVars

IngressSnapshot ==
    /\ ingress.pc = "snapshot"
    /\ chan_lock = None
    /\ ingress' = IF aggregation = "WeightedRoundRobin" /\ DOMAIN channels = {}
                   THEN [ingress EXCEPT !.pc = "recv"]
                   ELSE [ingress EXCEPT
                           !.snapshot = channels,
                           !.pc = IF aggregation = "WeightedRoundRobin"
                                  THEN "select" ELSE "send"]
    /\ UNCHANGED <<schedVars, fairVars, excluded_interfaces, aggregation, swaps,
                   host, channels, chan_lock, weight_manager, weights_file,
                   wg_addr, poller, mgmt, sent, hist>>
    /\ UNCHANGED linkVars

IngressSelect ==
    /\ ingress.pc = "select"
    /\ LET interface_names == SortNames(DOMAIN ingress.snapshot)
       IN \E w \in {weights_for(weight_manager, weights_file, interface_names)} :
          \E n \in {WrrState_next_interface(
                      WrrState_rebuild(rr_state, interface_names, w.map,
                                       w.wm.version))} :
            /\ weight_manager' = w.wm
            /\ rr_state' = n.state
            /\ ingress' = IF n.chosen # None /\ n.chosen \in DOMAIN ingress.snapshot
                           THEN [ingress EXCEPT !.selected = n.chosen, !.pc = "send"]
                           ELSE [ingress EXCEPT !.snapshot = NoChannels, !.pc = "recv"]
    /\ UNCHANGED <<schedVars, picks, excluded_interfaces, aggregation, swaps,
                   host, channels, chan_lock, weights_file, wg_addr, poller,
                   mgmt, sent, hist>>
    /\ UNCHANGED linkVars

\* one send_to: what goes on the wire and whether the interface is excluded
\* as the send is made
Datagram(ifname, routine) ==
    [ifname |-> ifname, dgram |-> ingress.n, src_addr |-> routine.src_addr,
     dst_addr |-> routine.dst_addr,
     excluded |-> is_excluded(ifname, excluded_interfaces, swaps)]

\* mutant: the names are looked up again in the live table
Ingress_targets_LiveTable(agg, selected, snapshot, table) ==
    IF agg = "WeightedRoundRobin" THEN <<selected>>
    ELSE SortNames(DOMAIN snapshot \cap DOMAIN table)

\* the interfaces the datagram goes out on: the selected one, or every entry
\* of channels_snapshot
Ingress_targets(agg, selected, snapshot, table) ==
    IF agg = "WeightedRoundRobin" THEN <<selected>>
    ELSE SortNames(DOMAIN snapshot)

IngressSend ==
    /\ ingress.pc = "send"
    /\ LET targets == Ingress_targets(aggregation, ingress.selected,
                                      ingress.snapshot, channels)
       IN sent' = sent \o [i \in DOMAIN targets |->
                             Datagram(targets[i], ingress.snapshot[targets[i]])]
    /\ ingress' = [ingress EXCEPT !.pc = "recv", !.snapshot = NoChannels,
                                    !.selected = None]
    /\ UNCHANGED <<schedVars, fairVars, excluded_interfaces, aggregation, swaps,
                   host, channels, chan_lock, weight_manager, weights_file,
                   wg_addr, poller, mgmt, hist>>
    /\ UNCHANGED linkVars

\* ---- the management handlers
\* hist.last and hist.prev: the latest two calls that wrote the swap set, each
\* with the set it found
Logged(op, name) ==
    [hist EXCEPT !.last = [op |-> op, name |-> name, before |-> swaps],
                 !.prev = hist.last,
                 !.nevents = IF op \in {"swap", "reset"} THEN @ + 1 ELSE @]

\* hist.done: the management call that completed last, kept when hist.audit
\* is set: the swap set it found as it wrote (or returned) and the one it left,
\* the count of writes to the swap set up to it (wseq), the call that was the
\* last completed one as it began (prior), whether the swap set was written
\* by no other call since that one completed (clean), and whether it was
\* written by no other call between this call's test and its end (atomic);
\* tseq is the count of writes at the call's test
Audited(h, op, name, prior, tseq, after, wrote) ==
    IF ~h.audit THEN h
    ELSE [h EXCEPT !.done = [op |-> op, name |-> name, found |-> swaps,
                             after |-> after,
                             wseq |-> IF wrote THEN h.nwrites + 1 ELSE h.nwrites,
                             wrote |-> wrote,
                             atomic |-> h.nwrites = tseq,
                             clean |-> h.nwrites = prior.wseq,
                             prior |-> prior],
                   !.nwrites = IF wrote THEN @ + 1 ELSE @]

handle_swap_exclusion ==
    /\ hist.nevents < MaxEvents
    /\ \E iface \in IfNames :
         /\ swaps' = swap_exclusion(swaps, iface)
         /\ hist' = Audited(Logged("swap", iface), "swap", iface,
                            Brief(hist.done), hist.nwrites,
                            swap_exclusion(swaps, iface), TRUE)
    /\ UNCHANGED <<schedVars, fairVars, excluded_interfaces, aggregation, host,
                   channels, chan_lock, weight_manager, weights_file, wg_addr,
                   poller, ingress, mgmt, sent>>
    /\ UNCHANGED linkVars

handle_reset_exclusions ==
    /\ hist.nevents < MaxEvents
    /\ swaps' = reset_exclusions(swaps)
    /\ hist' = Audited(Logged("reset", ""), "reset", "", Brief(hist.done),
                       hist.nwrites, reset_exclusions(swaps), TRUE)
    /\ UNCHANGED <<schedVars, fairVars, excluded_interfaces, aggregation, host,
                   channels, chan_lock, weight_manager, weights_file, wg_addr,
                   poller, ingress, mgmt, sent>>
    /\ UNCHANGED linkVars

\* mutant: include toggles whatever the bit is
include_toggles_Always(sw, iface) == TRUE

\* the test of handle_include
include_toggles(sw, iface) == is_swapped(sw, iface)

\* mutant: exclude toggles whatever the bit is
exclude_toggles_Always(sw, iface) == TRUE

\* the test of handle_exclude
exclude_toggles(sw, iface) == ~is_swapped(sw, iface)

\* handle_include up to its test of is_swapped; "already-included" ends it
handle_include ==
    /\ hist.nevents < MaxEvents
    /\ \E iface \in IfNames :
         IF include_toggles(swaps, iface)
         THEN /\ mgmt' = [mgmt EXCEPT !.pending =
                           Append(@, [op |-> "include", name |-> iface,
                                      prior |-> Brief(hist.done),
                                      tseq |-> hist.nwrites])]
              /\ hist' = [hist EXCEPT !.nevents = @ + 1]
         ELSE /\ mgmt' = mgmt
              /\ hist' = Audited([hist EXCEPT !.nevents = @ + 1], "include", iface,
                                 Brief(hist.done), hist.nwrites, swaps, FALSE)
    /\ UNCHANGED <<schedVars, fairVars, excluded_interfaces, aggregation, swaps,
                   host, channels, chan_lock, weight_manager, weights_file,
                   wg_addr, poller, ingress, sent>>
    /\ UNCHANGED linkVars

\* handle_exclude up to its test of is_swapped; "already-excluded" ends it
handle_exclude ==
    /\ hist.nevents < MaxEvents
    /\ \E iface \in IfNames :
         IF exclude_toggles(swaps, iface)
         THEN /\ mgmt' = [mgmt EXCEPT !.pending =
                           Append(@, [op |-> "exclude", name |-> iface,
                                      prior |-> Brief(hist.done),
                                      tseq |-> hist.nwrites])]
              /\ hist' = [hist EXCEPT !.nevents = @ + 1]
         ELSE /\ mgmt' = mgmt
              /\ hist' = Audited([hist EXCEPT !.nevents = @ + 1], "exclude", iface,
                                 Brief(hist.done), hist.nwrites, swaps, FALSE)
    /\ UNCHANGED <<schedVars, fairVars, excluded_interfaces, aggregation, swaps,
                   host, channels, chan_lock, weight_manager, weights_file,
                   wg_addr, poller, ingress, sent>>
    /\ UNCHANGED linkVars

\* the swap_exclusion call of a handle_include or handle_exclude past its test
MgmtToggle ==
    /\ \E i \in DOMAIN mgmt.pending :
         /\ swaps' = swap_exclusion(swaps, mgmt.pending[i].name)
         /\ hist' = Audited(Logged(mgmt.pending[i].op, mgmt.pending[i].name),
                            mgmt.pending[i].op, mgmt.pending[i].name,
                            mgmt.pending[i].prior, mgmt.pending[i].tseq,
                            swap_exclusion(swaps, mgmt.pending[i].name), TRUE)
         /\ mgmt' = [mgmt EXCEPT !.pending =
                       SubSeq(@, 1, i - 1) \o SubSeq(@, i + 1, Len(@))]
    /\ UNCHANGED <<schedVars, fairVars, excluded_interfaces, aggregation, host,
                   channels, chan_lock, weight_manager, weights_file, wg_addr,
                   poller, ingress, sent>>
    /\ UNCHANGED linkVars

ClientNext ==
    \/ HostChange
    \/ PollerEnumerate
    \/ PollerLock
    \/ PollerRemoveStep
    \/ PollerUnlock
    \/ PollerAddSkip
    \/ PollerAddNew
    \/ PollerBindOk
    \/ PollerBindFail
    \/ PollerSleep
    \/ IngressRecv
    \/ IngressSetAddr
    \/ IngressSnapshot
    \/ IngressSelect
    \/ IngressSend
    \/ handle_swap_exclusion
    \/ handle_reset_exclusions
    \/ handle_include
    \/ handle_exclude
    \/ MgmtToggle

SpecClient == ClientInit /\ [][ClientNext]_vars

\* ---------------------------------------------------------------- SpecMgmt
\* The management handlers alone, over every configured exclusion list: the
\* swap calls and the listing that reports each interface's exclusion.
ExcludedListsAll == {<<>>, <<"eth1">>, <<"eth0", "eth1">>, <<"eth1", "eth1">>}

\* link tables the handlers may find
ChannelsSeen ==
    {NoChannels,
     [n \in {"eth0"} |-> [src_addr |-> "10.0.0.1",
                          dst_addr |-> get_dst_by_ifname(n, ClientCfg)]]}

\* hosts the handlers may find
HostsSeen ==
    HostInits \cup
    {[n \in IfNames |->
        IF n = "eth0" THEN <<Addr("v4", "10.", NetOf[n] \o "1")>>
        ELSE <<Addr("v6", "fe80", "fe80::1")>>]}

MgmtInit ==
    /\ algorithm = None
    /\ min_links_for_aggregation = 0
    /\ config = Replica2WeightedConfigDefault
    /\ links = <<>>
    /\ entries = <<>>
    /\ cache = <<>>
    /\ metrics = SchedulerMetricsDefault
    /\ last = NoCall
    /\ ncalls = 0
    /\ picks = <<>>
    /\ excluded_interfaces \in ExcludedListsAll
    /\ aggregation = "MirrorAll"
    /\ host \in HostsSeen
    /\ swaps = NoSwaps
    /\ channels \in ChannelsSeen
    /\ chan_lock = None
    /\ wg_addr = <<>>
    /\ weights_file = NoFile
    /\ weight_manager = WeightManagerNew(NoFile)
    /\ rr_state = WeightedRoundRobinStateNew
    /\ poller = PollerIdle
    /\ ingress = IngressIdle
    /\ mgmt = MgmtIdle
    /\ sent = <<>>
    /\ hist = [last |-> NoWrite, prev |-> NoWrite, nevents |-> 0,
               audit |-> FALSE, done |-> NoDone, nwrites |-> 0]
    /\ client_cfg = ClientCfg
    /\ tasks = <<>>
    /\ forwarded = <<>>
    /\ locks = <<>>
    /\ server = <<>>

\* handle_get_list: the lock is taken and the host's interfaces enumerated
handle_get_list ==
    /\ mgmt.list.pc = "idle"
    /\ chan_lock = None
    /\ chan_lock' = "get_list"
    /\ mgmt' = [mgmt EXCEPT !.list = [pc |-> "iter", ifaces |-> get_if_addrs(host),
                                      interfaces |-> <<>>]]
    /\ UNCHANGED <<schedVars, fairVars, excluded_interfaces, aggregation, swaps,
                   host, channels, weight_manager, weights_file, wg_addr,
                   poller, ingress, sent, hist>>
    /\ UNCHANGED linkVars

\* one WebInterface of the listing; last is whether an age is reported, and
\* swapped records the swap bit the status was computed from
WebInterface(ifname) ==
    LET address == get_address_by_interface(host, ifname)
        status == IF is_excluded(ifname, excluded_interfaces, swaps) THEN "excluded"
                  ELSE IF ifname \in DOMAIN channels THEN "active"
                  ELSE "idle"
    IN [name |-> ifname,
        status |-> status,
        senderAddress |-> IF address = <<>> THEN "" ELSE address[1],
        dstAddress |-> get_dst_by_ifname(ifname, ClientCfg),
        last |-> status = "active",
        swapped |-> is_swapped(swaps, ifname)]

GetListEntry ==
    /\ mgmt.list.pc = "iter"
    /\ mgmt.list.ifaces # <<>>
    /\ mgmt' = [mgmt EXCEPT !.list.ifaces = Tail(@),
                            !.list.interfaces =
                               Append(@, WebInterface(Head(mgmt.list.ifaces)))]
    /\ UNCHANGED <<schedVars, fairVars, excluded_interfaces, aggregation, swaps,
                   host, channels, chan_lock, weight_manager, weights_file,
                   wg_addr, poller, ingress, sent, hist>>
    /\ UNCHANGED linkVars

GetListReply ==
    /\ mgmt.list.pc = "iter"
    /\ mgmt.list.ifaces = <<>>
    /\ chan_lock' = None
    /\ mgmt' = [mgmt EXCEPT !.list = MgmtIdle.list,
                            !.response = mgmt.list.interfaces]
    /\ UNCHANGED <<schedVars, fairVars, excluded_interfaces, aggregation, swaps,
                   host, channels, weight_manager, weights_file, wg_addr,
                   poller, ingress, sent, hist>>
    /\ UNCHANGED linkVars

MgmtNext ==
    \/ handle_swap_exclusion
    \/ handle_reset_exclusions
    \/ handle_include
    \/ handle_exclude
    \/ MgmtToggle
    \/ handle_get_list
    \/ GetListEntry
    \/ GetListReply

SpecMgmt == MgmtInit /\ [][MgmtNext]_vars

\* --------------------------------------------------------------- SpecCalls
\* The calls that write the swap set, each audited from its test to its end.
CallsInit ==
    /\ algorithm = None
    /\ min_links_for_aggregation = 0
    /\ config = Replica2WeightedConfigDefault
    /\ links = <<>>
    /\ entries = <<>>
    /\ cache = <<>>
    /\ metrics = SchedulerMetricsDefault
    /\ last = NoCall
    /\ ncalls = 0
    /\ picks = <<>>
    /\ excluded_interfaces \in ExcludedListsAll
    /\ aggregation = "MirrorAll"
    /\ host \in HostInits
    /\ swaps = NoSwaps
    /\ channels = NoChannels
    /\ chan_lock = None
    /\ wg_addr = <<>>
    /\ weights_file = NoFile
    /\ weight_manager = WeightManagerNew(NoFile)
    /\ rr_state = WeightedRoundRobinStateNew
    /\ poller = PollerIdle
    /\ ingress = IngressIdle
    /\ mgmt = MgmtIdle
    /\ sent = <<>>
    /\ hist = [last |-> NoWrite, prev |-> NoWrite, nevents |-> 0,
               audit |-> TRUE, done |-> NoDone, nwrites |-> 0]
    /\ client_cfg = ClientCfg
    /\ tasks = <<>>
    /\ forwarded = <<>>
    /\ locks = <<>>
    /\ server = <<>>

CallsNext ==
    \/ handle_swap_exclusion
    \/ handle_reset_exclusions
    \/ handle_include
    \/ handle_exclude
    \/ MgmtToggle

SpecCalls == CallsInit /\ [][CallsNext]_vars

\* ------------------------------------------------------------- SpecWeights
\* The weight store over every content of its file: the calls
\* ensure_interfaces and weights_for, and the file edited, removed or
\* protected from outside.
StoredWeights == {-1, 0, 2, F64NaN, F64PosInf, F64NegInf}

\* every mapping of some of the interface names to stored weights
FileMaps == UNION {[names -> StoredWeights] : names \in SUBSET IfNames}

\* mappings an edit from outside leaves in the file
EditMaps == {[n \in {"eth0"} |-> 2], [n \in IfNames |-> IF n = "eth0" THEN -1 ELSE 0]}

\* the file as the client starts
InitFiles ==
    {[exists |-> FALSE, form |-> "ok", contents |-> NoWeights, mtime |-> 0,
      writable |-> w] : w \in BOOLEAN}
    \cup {[exists |-> TRUE, form |-> "ok", contents |-> m, mtime |-> 1,
           writable |-> w] : m \in FileMaps, w \in BOOLEAN}
    \cup {[exists |-> TRUE, form |-> f, contents |-> NoWeights, mtime |-> 1,
           writable |-> w] :
             f \in {"noaccess", "unreadable", "unparsable"}, w \in BOOLEAN}

\* the slices of names the calls are made with
NameLists == {<<>>, <<"eth0">>, <<"eth0", "eth1">>, <<"eth1", "eth1">>}

\* hist.call: the latest call or change, with the manager and the file it
\* found and left, the mapping in memory after its reload step (loaded) and
\* the mapping it returned (map); hist.prev: the one before it
NoStoreCall ==
    [op |-> "none", names |-> <<>>, wm0 |-> WeightManagerEmpty, file0 |-> NoFile,
     loaded |-> NoWeights, wm |-> WeightManagerEmpty, file |-> NoFile,
     map |-> NoWeights]

StoreBrief(c) == [op |-> c.op, names |-> c.names, wm |-> c.wm, file |-> c.file]

StoreLogged(op, names, loaded, wm, file, map) ==
    [nevents |-> hist.nevents + 1,
     call |-> [op |-> op, names |-> names, wm0 |-> weight_manager,
               file0 |-> weights_file, loaded |-> loaded, wm |-> wm,
               file |-> file, map |-> map],
     prev |-> StoreBrief(hist.call)]

WeightsInit ==
    /\ algorithm = None
    /\ min_links_for_aggregation = 0
    /\ config = Replica2WeightedConfigDefault
    /\ links = <<>>
    /\ entries = <<>>
    /\ cache = <<>>
    /\ metrics = SchedulerMetricsDefault
    /\ last = NoCall
    /\ ncalls = 0
    /\ picks = <<>>
    /\ excluded_interfaces = <<>>
    /\ aggregation = "WeightedRoundRobin"
    /\ host \in HostInits
    /\ swaps = NoSwaps
    /\ channels = NoChannels
    /\ chan_lock = None
    /\ wg_addr = <<>>
    /\ weights_file \in InitFiles
    /\ weight_manager = WeightManagerNew(weights_file)
    /\ rr_state = WeightedRoundRobinStateNew
    /\ poller = PollerIdle
    /\ ingress = IngressIdle
    /\ mgmt = MgmtIdle
    /\ sent = <<>>
    /\ hist = [nevents |-> 0, call |-> NoStoreCall, prev |-> StoreBrief(NoStoreCall)]
    /\ client_cfg = ClientCfg
    /\ tasks = <<>>
    /\ forwarded = <<>>
    /\ locks = <<>>
    /\ server = <<>>

EnsureCall ==
    /\ hist.nevents < MaxStoreEvents
    /\ \E names \in NameLists :
       \E e \in {ensure_interfaces(weight_manager, weights_file, names)} :
         /\ weight_manager' = e.wm
         /\ weights_file' = e.file
         /\ hist' = StoreLogged("ensure", names,
                                reload_if_needed(weight_manager, weights_file).weights,
                                e.wm, e.file, NoWeights)
    /\ UNCHANGED <<schedVars, fairVars, excluded_interfaces, aggregation, swaps,
                   host, channels, chan_lock, wg_addr, poller, ingress, mgmt, sent>>
    /\ UNCHANGED linkVars

WeightsForCall ==
    /\ hist.nevents < MaxStoreEvents
    /\ \E names \in NameLists :
       \E w \in {weights_for(weight_manager, weights_file, names)} :
         /\ weight_manager' = w.wm
         /\ hist' = StoreLogged("weights_for", names, w.wm.weights, w.wm,
                                weights_file, w.map)
    /\ UNCHANGED <<schedVars, fairVars, excluded_interfaces, aggregation, swaps,
                   host, channels, chan_lock, weights_file, wg_addr, poller,
                   ingress, mgmt, sent>>
    /\ UNCHANGED linkVars

\* the file is rewritten from outside, within the tick of its mtime or later
FileEdit ==
    /\ hist.nevents < MaxStoreEvents
    /\ \E m \in EditMaps : \E f \in {"ok", "unparsable"} : \E t \in {0, 1} :
         /\ weights_file.exists \/ t = 1
         /\ weights_file' = [weights_file EXCEPT !.exists = TRUE, !.form = f,
                                                 !.contents = m, !.mtime = @ + t]
         /\ hist' = StoreLogged("edit", <<>>, weight_manager.weights,
                                weight_manager, weights_file', NoWeights)
    /\ UNCHANGED <<schedVars, fairVars, excluded_interfaces, aggregation, swaps,
                   host, channels, chan_lock, weight_manager, wg_addr, poller,
                   ingress, mgmt, sent>>
    /\ UNCHANGED linkVars

\* the file is deleted from outside
FileRemove ==
    /\ hist.nevents < MaxStoreEvents
    /\ weights_file.exists
    /\ weights_file' = [weights_file EXCEPT !.exists = FALSE, !.form = "ok",
                                            !.contents = NoWeights]
    /\ hist' = StoreLogged("remove", <<>>, weight_manager.weights,
                           weight_manager, weights_file', NoWeights)
    /\ UNCHANGED <<schedVars, fairVars, excluded_interfaces, aggregation, swaps,
                   host, channels, chan_lock, weight_manager, wg_addr, poller,
                   ingress, mgmt, sent>>
    /\ UNCHANGED linkVars

\* the file's directory becomes writable or read-only
FileProtect ==
    /\ hist.nevents < MaxStoreEvents
    /\ weights_file' = [weights_file EXCEPT !.writable = ~@]
    /\ hist' = StoreLogged("protect", <<>>, weight_manager.weights,
                           weight_manager, weights_file', NoWeights)
    /\ UNCHANGED <<schedVars, fairVars, excluded_interfaces, aggregation, swaps,
                   host, channels, chan_lock, weight_manager, wg_addr, poller,
                   ingress, mgmt, sent>>
    /\ UNCHANGED linkVars

WeightsNext ==
    \/ EnsureCall
    \/ WeightsForCall
    \/ FileEdit
    \/ FileRemove
    \/ FileProtect

SpecWeights == WeightsInit /\ [][WeightsNext]_vars

\* ------------------------------------------------- claims on the exclusions
\* configured exclusion of a name
Configured(name) == \E i \in DOMAIN excluded_interfaces : excluded_interfaces[i] = name

\* the swap bit of a name in a swap set
Bit(sw, name) == name \in DOMAIN sw /\ sw[name]

\* names asked about: the host's interfaces and one that is none of them
QueryNames == IfNames \cup {"wlan0"}

\* C8 as stated: every datagram the downstream ingress sends goes out on an
\* interface that is not effectively excluded at the moment of the send.
C8_Original == \A i \in DOMAIN sent : ~sent[i].excluded

\* C9: for every name, exclusion list and swap set, is_excluded(name) is
\* (name is in excluded_interfaces) XOR (the swap bit of name is set); and
\* every status the listing reports as "excluded" is exactly that XOR of the
\* swap bit read for it.
C9_IsExcludedIsXor ==
    /\ \A name \in QueryNames :
         is_excluded(name, excluded_interfaces, swaps)
           = (Configured(name) # Bit(swaps, name))
    /\ \A i \in DOMAIN mgmt.list.interfaces :
         LET e == mgmt.list.interfaces[i]
         IN (e.status = "excluded") = (Configured(e.name) # e.swapped)
    /\ \A i \in DOMAIN mgmt.response :
         LET e == mgmt.response[i]
         IN (e.status = "excluded") = (Configured(e.name) # e.swapped)

\* a listing reported a configured-excluded interface as not excluded because
\* it was swapped, and an interface that is not configured as excluded
C9_Witness ==
    /\ \E i \in DOMAIN mgmt.response :
         /\ Configured(mgmt.response[i].name)
         /\ mgmt.response[i].swapped
         /\ mgmt.response[i].status # "excluded"
    /\ \E i \in DOMAIN mgmt.response :
         /\ ~Configured(mgmt.response[i].name)
         /\ mgmt.response[i].swapped
         /\ mgmt.response[i].status = "excluded"

\* C10: a swap_exclusion(name) call flips the swap bit of name and leaves the
\* bit of every other name as it found it; two swap_exclusion(name) calls in
\* a row leave the swap set, and the effective exclusion of every interface,
\* as the first call found them.
C10_SwapFlipsAndTwiceRestores ==
    /\ hist.last.op = "swap" =>
         \A n \in QueryNames :
           Bit(swaps, n) = IF n = hist.last.name
                           THEN ~Bit(hist.last.before, n)
                           ELSE Bit(hist.last.before, n)
    /\ (hist.last.op = "swap" /\ hist.prev.op = "swap"
        /\ hist.last.name = hist.prev.name) =>
         /\ swaps = hist.prev.before
         /\ \A n \in QueryNames :
              is_excluded(n, excluded_interfaces, swaps)
                = (Configured(n) # Bit(hist.prev.before, n))

\* eth1 is excluded by configuration and was swapped twice in a row
C10_Witness ==
    /\ Configured("eth1")
    /\ hist.last.op = "swap" /\ hist.prev.op = "swap"
    /\ hist.last.name = "eth1" /\ hist.prev.name = "eth1"
    /\ is_excluded("eth1", excluded_interfaces, swaps)

\* C11: include(name) and exclude(name) change the swap bit of no other
\* name, and a second include(name) (exclude(name)) made right after the
\* first one completed leaves the swap set as the first call left it, when no
\* other call writes the swap set while either of the two runs or between
\* them.
C11_IncludeExcludeIdempotent ==
    /\ hist.done.op \in {"include", "exclude"} =>
         \A m \in QueryNames \ {hist.done.name} :
           Bit(hist.done.after, m) = Bit(hist.done.found, m)
    /\ (/\ hist.done.op \in {"include", "exclude"}
        /\ hist.done.prior.op = hist.done.op
        /\ hist.done.prior.name = hist.done.name
        /\ hist.done.prior.atomic
        /\ hist.done.clean) =>
         hist.done.after = hist.done.prior.after

\* an include that cleared the bit of eth1 was followed by a second include
C11_Witness ==
    /\ hist.done.op = "include" /\ hist.done.name = "eth1"
    /\ hist.done.prior.op = "include" /\ hist.done.prior.name = "eth1"
    /\ hist.done.prior.wrote
    /\ hist.done.prior.atomic
    /\ hist.done.clean
    /\ ~Bit(swaps, "eth1")

\* C12: after reset_exclusions() no swap bit is set, and the effective
\* exclusion of every name is its configured exclusion, whatever calls came
\* before.
C12_ResetClearsSwaps ==
    hist.last.op = "reset" =>
      /\ \A n \in QueryNames : ~Bit(swaps, n)
      /\ \A n \in QueryNames :
           is_excluded(n, excluded_interfaces, swaps) = Configured(n)

\* a reset found the configured-excluded eth1 swapped in, and eth0 swapped out
C12_Witness ==
    /\ hist.last.op = "reset"
    /\ Configured("eth1") /\ ~Configured("eth0")
    /\ Bit(hist.last.before, "eth1") /\ Bit(hist.last.before, "eth0")
    /\ is_excluded("eth1", excluded_interfaces, swaps)
    /\ ~is_excluded("eth0", excluded_interfaces, swaps)

\* ---------------------------------------------- claims on the weight store
\* a weight below 0
Below0(w) == w = F64NegInf \/ (F64Finite(w) /\ w < 0)

\* C13: after ensure_interfaces(names) the mapping holds the entries it had
\* after the reload, with their values, and every missing name at 1.0; a
\* second ensure_interfaces(names) right after the first, the file not
\* touched from outside in between, leaves the mapping, the version and the
\* file as the first call left them.
C13_EnsureIdempotent ==
    hist.call.op = "ensure" =>
      /\ DOMAIN hist.call.wm.weights
           = DOMAIN hist.call.loaded \cup Range(hist.call.names)
      /\ \A n \in DOMAIN hist.call.loaded :
           hist.call.wm.weights[n] = hist.call.loaded[n]
      /\ \A n \in Range(hist.call.names) \ DOMAIN hist.call.loaded :
           hist.call.wm.weights[n] = 1
      /\ (hist.prev.op = "ensure" /\ hist.prev.names = hist.call.names) =>
           /\ hist.call.wm.weights = hist.prev.wm.weights
           /\ hist.call.wm.version = hist.prev.wm.version
           /\ hist.call.file = hist.prev.file

\* the first call kept eth0 at -1, added eth1 at 1.0 and saved the file; the
\* second call was made with the same names
C13_Witness ==
    /\ hist.call.op = "ensure" /\ hist.prev.op = "ensure"
    /\ hist.call.names = <<"eth0", "eth1">> /\ hist.prev.names = hist.call.names
    /\ hist.call.file.exists /\ hist.call.file.mtime = 2
    /\ hist.call.file.contents = [n \in IfNames |-> IF n = "eth0" THEN -1 ELSE 1]
    /\ hist.call.wm.weights = hist.call.file.contents

\* C14 as stated: after ensure_interfaces(names) no interface of the
\* mapping has a weight below 0, whatever the file holds.
C14_Original ==
    hist.call.op = "ensure" =>
      \A n \in DOMAIN hist.call.wm.weights : ~Below0(hist.call.wm.weights[n])

\* C20 as stated: weights_for(names) returns 1.0 for a name without entry,
\* 0.0 for a stored weight that is negative or not finite, and the stored
\* weight otherwise.
C20_Original ==
    hist.call.op = "weights_for" =>
      \A n \in Range(hist.call.names) :
        hist.call.map[n] =
          IF n \notin DOMAIN hist.call.loaded THEN 1
          ELSE IF Below0(hist.call.loaded[n]) \/ ~F64Finite(hist.call.loaded[n])
               THEN 0
               ELSE hist.call.loaded[n]

\* ------------------------- SpecTable: the poller and the ingress task
\* main(): the client as in ClientInit, nothing excluded, and no management
\* call made
TableInit ==
    /\ algorithm = None
    /\ min_links_for_aggregation = 0
    /\ config = Replica2WeightedConfigDefault
    /\ links = <<>>
    /\ entries = <<>>
    /\ cache = <<>>
    /\ metrics = SchedulerMetricsDefault
    /\ last = NoCall
    /\ ncalls = 0
    /\ picks = <<>>
    /\ excluded_interfaces = <<>>
    /\ aggregation \in Aggregations
    /\ host \in HostInits
    /\ swaps = NoSwaps
    /\ channels = NoChannels
    /\ chan_lock = None
    /\ wg_addr = <<>>
    /\ weights_file = NoFile
    /\ weight_manager = WeightManagerNew(NoFile)
    /\ rr_state = WeightedRoundRobinStateNew
    /\ poller = PollerIdle
    /\ ingress = IngressIdle
    /\ mgmt = MgmtIdle
    /\ sent = <<>>
    /\ hist = [last |-> NoWrite, prev |-> NoWrite, nevents |-> 0,
               audit |-> FALSE, done |-> NoDone, nwrites |-> 0]
    /\ client_cfg = ClientCfg
    /\ tasks = <<>>
    /\ forwarded = <<>>
    /\ locks = <<>>
    /\ server = <<>>

TableNext ==
    \/ HostChange
    \/ PollerEnumerate
    \/ PollerLock
    \/ PollerRemoveStep
    \/ PollerUnlock
    \/ PollerAddSkip
    \/ PollerAddNew
    \/ PollerBindOk
    \/ PollerBindFail
    \/ PollerSleep
    \/ IngressRecv
    \/ IngressSetAddr
    \/ IngressSnapshot
    \/ IngressSelect
    \/ IngressSend

SpecTable == TableInit /\ [][TableNext]_vars

\* --------------------- SpecDownstream: receive_from_wireguard, send by send
\* The loop of receive_from_wireguard with the sends of one datagram resolved
\* one at a time, each with its outcome, next to the poller and the host.
\* ingress.pending holds the send futures in flight, each with the socket
\* address and the destination it captured from the snapshot; hist.latest is
\* the source of the latest datagram recv_from returned, hist.outcome the
\* result of the latest send.
WgPeers == {"127.0.0.1:40001", "127.0.0.1:40002"}
SendOutcomes == {"ok", "error", "timeout"}

DownstreamIdle ==
    [pc |-> "recv", n |-> 0, src |-> "", snapshot |-> NoChannels,
     selected |-> None, pending |-> {}]

DownstreamInit ==
    /\ algorithm = None
    /\ min_links_for_aggregation = 0
    /\ config = Replica2WeightedConfigDefault
    /\ links = <<>>
    /\ entries = <<>>
    /\ cache = <<>>
    /\ metrics = SchedulerMetricsDefault
    /\ last = NoCall
    /\ ncalls = 0
    /\ picks = <<>>
    /\ excluded_interfaces = <<>>
    /\ aggregation \in {"MirrorAll", "WeightedRoundRobin"}
    /\ host \in HostInits
    /\ swaps = NoSwaps
    /\ channels = NoChannels
    /\ chan_lock = None
    /\ wg_addr = <<>>
    /\ weights_file = NoFile
    /\ weight_manager = WeightManagerNew(NoFile)
    /\ rr_state = WeightedRoundRobinStateNew
    /\ poller = PollerIdle
    /\ ingress = DownstreamIdle
    /\ mgmt = MgmtIdle
    /\ sent = <<>>
    /\ hist = [nevents |-> 0, latest |-> <<>>, outcome |-> "none"]
    /\ client_cfg = ClientCfg
    /\ tasks = <<>>
    /\ forwarded = <<>>
    /\ locks = <<>>
    /\ server = <<>>

\* wg_sock.recv_from returns a datagram
DownstreamRecv ==
    /\ ingress.pc = "recv"
    /\ hist.nevents < MaxEvents
    /\ \E src \in WgPeers :
         /\ ingress' = [ingress EXCEPT !.pc = "set_addr", !.n = @ + 1, !.src = src]
         /\ hist' = [hist EXCEPT !.nevents = @ + 1, !.latest = <<src>>]
    /\ UNCHANGED <<schedVars, fairVars, excluded_interfaces, aggregation, swaps,
                   host, channels, chan_lock, weight_manager, weights_file,
                   wg_addr, poller, mgmt, sent>>
    /\ UNCHANGED linkVars

\* mutant: the address is written only while it is unset
reply_addr_FirstWins(old, src) == IF old = <<>> THEN <<src>> ELSE old

\* *wg_addr_lock = Some(src_addr)
reply_addr(old, src) == <<src>>

DownstreamSetAddr ==
    /\ ingress.pc = "set_addr"
    /\ wg_addr' = reply_addr(wg_addr, ingress.src)
    /\ ingress' = [ingress EXCEPT !.pc = "snapshot", !.src = ""]
    /\ UNCHANGED <<schedVars, fairVars, excluded_interfaces, aggregation, swaps,
                   host, channels, chan_lock, weight_manager, weights_file,
                   poller, mgmt, sent, hist>>
    /\ UNCHANGED linkVars

\* the send future of the datagram on one entry of the snapshot
SendFuture(dgram, ifname, routine) ==
    [ifname |-> ifname, dgram |-> dgram, src_addr |-> routine.src_addr,
     dst_addr |-> routine.dst_addr]

\* the clone of the table; under mirror-all and hybrid one send per entry
DownstreamSnapshot ==
    /\ ingress.pc = "snapshot"
    /\ chan_lock = None
    /\ ingress' =
         IF aggregation = "WeightedRoundRobin"
         THEN IF DOMAIN channels = {}
              THEN [ingress EXCEPT !.pc = "recv"]
              ELSE [ingress EXCEPT !.snapshot = channels, !.pc = "select"]
         ELSE [ingress EXCEPT
                 !.snapshot = channels, !.pc = "send",
                 !.pending = @ \cup {SendFuture(ingress.n, name, channels[name]) :
                                       name \in DOMAIN channels}]
    /\ UNCHANGED <<schedVars, fairVars, excluded_interfaces, aggregation, swaps,
                   host, channels, chan_lock, weight_manager, weights_file,
                   wg_addr, poller, mgmt, sent, hist>>
    /\ UNCHANGED linkVars

\* weights_for, rebuild, next_interface, and the send on the selected entry
DownstreamSelect ==
    /\ ingress.pc = "select"
    /\ LET interface_names == SortNames(DOMAIN ingress.snapshot)
       IN \E w \in {weights_for(weight_manager, weights_file, interface_names)} :
          \E n \in {WrrState_next_interface(
                      WrrState_rebuild(rr_state, interface_names, w.map,
                                       w.wm.version))} :
            /\ weight_manager' = w.wm
            /\ rr_state' = n.state
            /\ ingress' =
                 IF n.chosen # None /\ n.chosen \in DOMAIN ingress.snapshot
                 THEN [ingress EXCEPT
                         !.selected = n.chosen, !.pc = "send",
                         !.pending = @ \cup {SendFuture(ingress.n, n.chosen,
                                                        ingress.snapshot[n.chosen])}]
                 ELSE [ingress EXCEPT !.snapshot = NoChannels, !.pc = "recv"]
    /\ UNCHANGED <<schedVars, picks, excluded_interfaces, aggregation, swaps,
                   host, channels, chan_lock, weights_file, wg_addr, poller,
                   mgmt, sent, hist>>
    /\ UNCHANGED linkVars

\* mutant: a link whose send failed or timed out is taken out of the table
table_after_send_Evict(table, ifname, outcome) ==
    IF outcome = "ok" THEN table
    ELSE [n \in DOMAIN table \ {ifname} |-> table[n]]

\* the arms of the match on the send's result: a warning at most
table_after_send(table, ifname, outcome) == table

\* one send_to under tokio::time::timeout resolves
DownstreamSendDone ==
    /\ ingress.pending # {}
    /\ \E f \in ingress.pending : \E outcome \in SendOutcomes :
         /\ sent' = Append(sent, f)
         /\ channels' = table_after_send(channels, f.ifname, outcome)
         /\ ingress' = [ingress EXCEPT !.pending = @ \ {f}]
         /\ hist' = [hist EXCEPT !.outcome = outcome]
    /\ UNCHANGED <<schedVars, fairVars, excluded_interfaces, aggregation, swaps,
                   host, chan_lock, weight_manager, weights_file, wg_addr,
                   poller, mgmt>>
    /\ UNCHANGED linkVars

\* mutant: the loop goes on without waiting for the sends
all_sends_joined_NoWait(pending) == TRUE

\* join_all(sends).await, or the one awaited send: every future has resolved
all_sends_joined(pending) == pending = {}

\* the end of the loop body
DownstreamLoop ==
    /\ ingress.pc = "send"
    /\ all_sends_joined(ingress.pending)
    /\ ingress' = [ingress EXCEPT !.pc = "recv", !.snapshot = NoChannels,
                                    !.selected = None]
    /\ UNCHANGED <<schedVars, fairVars, excluded_interfaces, aggregation, swaps,
                   host, channels, chan_lock, weight_manager, weights_file,
                   wg_addr, poller, mgmt, sent, hist>>
    /\ UNCHANGED linkVars

DownstreamNext ==
    \/ HostChange
    \/ PollerEnumerate
    \/ PollerLock
    \/ PollerRemoveStep
    \/ PollerUnlock
    \/ PollerAddSkip
    \/ PollerAddNew
    \/ PollerBindOk
    \/ PollerBindFail
    \/ PollerSleep
    \/ DownstreamRecv
    \/ DownstreamSetAddr
    \/ DownstreamSnapshot
    \/ DownstreamSelect
    \/ DownstreamSendDone
    \/ DownstreamLoop

SpecDownstream == DownstreamInit /\ [][DownstreamNext]_vars

\* --------------------------- SpecLinks: the links and their upstream tasks
\* create_send_thread with the task it spawns, and wg_write_back, next to the
\* poller, the host and the downstream ingress under mirror-all.  A record of
\* the table carries the number of its socket (sock), which is the position
\* in tasks of the task that reads it; the task holds its own clone of the
\* socket.
ParsableAddrs == {"srv:59501", "srv1:59501"}

\* str.parse::<SocketAddr>()
parse_socket_addr(str) == IF str \in ParsableAddrs THEN <<str>> ELSE <<>>

\* where a datagram on a link's socket can come from: the link's destination
\* or anyone else
OffPath == "198.51.100.9:4000"

LinksInit ==
    /\ algorithm = None
    /\ min_links_for_aggregation = 0
    /\ config = Replica2WeightedConfigDefault
    /\ links = <<>>
    /\ entries = <<>>
    /\ cache = <<>>
    /\ metrics = SchedulerMetricsDefault
    /\ last = NoCall
    /\ ncalls = 0
    /\ picks = <<>>
    /\ excluded_interfaces = <<>>
    /\ aggregation = "MirrorAll"
    /\ host \in HostInits
    /\ swaps = NoSwaps
    /\ channels = NoChannels
    /\ chan_lock = None
    /\ wg_addr = <<>>
    /\ weights_file = NoFile
    /\ weight_manager = WeightManagerNew(NoFile)
    /\ rr_state = WeightedRoundRobinStateNew
    /\ poller = PollerIdle
    /\ ingress = IngressIdle
    /\ mgmt = MgmtIdle
    /\ sent = <<>>
    /\ hist = [nevents |-> 0]
    /\ client_cfg = ClientCfg
    /\ tasks = <<>>
    /\ forwarded = <<>>
    /\ locks = <<>>
    /\ server = <<>>

\* the tasks spawned in all: the two interfaces once, and once more for each
\* event that lets the poller drop a link
MaxTasks == MaxEvents + 2

\* mutant: the routine is not tabled
channels_insert_Dropped(table, ifname, routine) == table

\* sending_channels.lock().unwrap().insert(ifname, routine)
channels_insert(table, ifname, routine) ==
    [n \in DOMAIN table \cup {ifname} |-> IF n = ifname THEN routine ELSE table[n]]

\* create_send_thread: the socket is bound, the task spawned with its clone
\* of the routine, and the routine tabled
CreateBindOk ==
    /\ poller.pc = "bind"
    /\ chan_lock = None
    /\ Len(tasks) < MaxTasks
    /\ \E dst \in {parse_socket_addr(get_dst_by_ifname(poller.ifname, client_cfg))} :
         /\ dst # <<>>
         /\ tasks' = Append(tasks, [ifname |-> poller.ifname, src_addr |-> poller.ip,
                                    dst_addr |-> dst[1], pc |-> "recv", from |-> "",
                                    dgram |-> 0, last_rec |-> 0])
         /\ channels' = channels_insert(channels, poller.ifname,
                                         [src_addr |-> poller.ip, dst_addr |-> dst[1],
                                          sock |-> Len(tasks) + 1])
    /\ poller' = [poller EXCEPT !.pc = "add", !.ifname = "", !.ip = ""]
    /\ UNCHANGED <<schedVars, fairVars, excluded_interfaces, aggregation, swaps,
                   host, chan_lock, weight_manager, weights_file, wg_addr,
                   ingress, mgmt, sent, hist, client_cfg, forwarded, locks, server>>

\* wg_write_back: src_sock.recv returns a datagram, and last_rec is set to
\* the instant of its arrival.  A datagram is named by the number of the
\* event that brought it, which also stands for the instant.
LinkRecv ==
    /\ hist.nevents < MaxEvents
    /\ \E i \in DOMAIN tasks :
         /\ tasks[i].pc = "recv"
         /\ \E src \in {tasks[i].dst_addr, OffPath} :
              tasks' = [tasks EXCEPT ![i].pc = "forward", ![i].from = src,
                                     ![i].dgram = hist.nevents + 1,
                                     ![i].last_rec = hist.nevents + 1]
    /\ hist' = [hist EXCEPT !.nevents = @ + 1]
    /\ UNCHANGED <<schedVars, fairVars, excluded_interfaces, aggregation, swaps,
                   host, channels, chan_lock, weight_manager, weights_file,
                   wg_addr, poller, ingress, mgmt, sent, client_cfg, forwarded, locks, server>>

\* whether the table still holds the routine task i was spawned with
Tabled(i) ==
    /\ tasks[i].ifname \in DOMAIN channels
    /\ channels[tasks[i].ifname].sock = i

\* mutant: without a reply address the datagram goes to the first peer
write_back_target_Default(addr) == IF addr = <<>> THEN <<"127.0.0.1:40001">> ELSE addr

\* if let Some(addr) = *wg_addr.read().await
write_back_target(addr) == addr

\* wg_write_back: the datagram goes to the reply address when there is one,
\* and the send succeeds or fails (ok)
LinkForward ==
    /\ \E i \in DOMAIN tasks : \E ok \in BOOLEAN :
         /\ tasks[i].pc = "forward"
         /\ \E addr \in {write_back_target(wg_addr)} :
              /\ addr = <<>> => ok
              /\ forwarded' =
                   IF addr = <<>> THEN forwarded
                   ELSE Append(forwarded, [ifname |-> tasks[i].ifname, sock |-> i,
                                           from |-> tasks[i].from,
                                           dst_addr |-> tasks[i].dst_addr,
                                           dgram |-> tasks[i].dgram,
                                           to |-> addr[1], ok |-> ok,
                                           tabled |-> Tabled(i)])
         /\ tasks' = [tasks EXCEPT ![i].pc = "recv", ![i].from = "", ![i].dgram = 0]
    /\ UNCHANGED <<schedVars, fairVars, excluded_interfaces, aggregation, swaps,
                   host, channels, chan_lock, weight_manager, weights_file,
                   wg_addr, poller, ingress, mgmt, sent, hist, client_cfg, locks, server>>

\* wg_write_back: src_sock.recv fails and the task ends
LinkRecvError ==
    /\ hist.nevents < MaxEvents
    /\ \E i \in DOMAIN tasks :
         /\ tasks[i].pc = "recv"
         /\ tasks' = [tasks EXCEPT ![i].pc = "exited"]
    /\ hist' = [hist EXCEPT !.nevents = @ + 1]
    /\ UNCHANGED <<schedVars, fairVars, excluded_interfaces, aggregation, swaps,
                   host, channels, chan_lock, weight_manager, weights_file,
                   wg_addr, poller, ingress, mgmt, sent, client_cfg, forwarded, locks, server>>

LinksNext ==
    \/ HostChange
    \/ PollerEnumerate
    \/ PollerLock
    \/ PollerRemoveStep
    \/ PollerUnlock
    \/ PollerAddSkip
    \/ PollerAddNew
    \/ PollerBindFail
    \/ CreateBindOk
    \/ PollerSleep
    \/ IngressRecv
    \/ IngressSetAddr
    \/ IngressSnapshot
    \/ IngressSend
    \/ LinkRecv
    \/ LinkForward
    \/ LinkRecvError

SpecLinks == LinksInit /\ [][LinksNext]_vars

\* SpecLinks on a host whose interfaces stay as they are
WriteBackNext ==
    \/ PollerEnumerate
    \/ PollerLock
    \/ PollerRemoveStep
    \/ PollerUnlock
    \/ PollerAddSkip
    \/ PollerAddNew
    \/ PollerBindFail
    \/ CreateBindOk
    \/ PollerSleep
    \/ IngressRecv
    \/ IngressSetAddr
    \/ IngressSnapshot
    \/ IngressSend
    \/ LinkRecv
    \/ LinkForward
    \/ LinkRecvError

SpecWriteBack == LinksInit /\ [][WriteBackNext]_vars

\* the steps of the poller task, of the downstream ingress task and of the
\* per-link tasks, which the runtime keeps scheduling
LinksPollerStep ==
    \/ PollerEnumerate
    \/ PollerLock
    \/ PollerRemoveStep
    \/ PollerUnlock
    \/ PollerAddSkip
    \/ PollerAddNew
    \/ PollerBindFail
    \/ CreateBindOk
    \/ PollerSleep

LinksIngressStep ==
    \/ IngressSetAddr
    \/ IngressSnapshot
    \/ IngressSend

\* SpecLinks with every spawned task scheduled again and again
FairLinks ==
    /\ LinksInit
    /\ [][LinksNext]_vars
    /\ WF_vars(LinksPollerStep)
    /\ WF_vars(LinksIngressStep)
    /\ WF_vars(LinkForward)

\* ------------------------- SpecPoller: the poller, the host and the swaps
\* update_available_interfaces with create_send_thread in full, while the
\* host's addresses change and swap_exclusion flips exclusions.  The
\* configuration is one whose destinations all parse, or one whose override
\* for eth1 is a host name, which SocketAddr does not parse.  hist.bindfail
\* holds the interfaces for which a bind has failed.
ClientCfgHostName == [dst_addr |-> "srv:59501",
                      dst_overrides |-> <<[if_name |-> "eth1",
                                           dst_addr |-> "server.example:59501"]>>]

PollerInit ==
    /\ algorithm = None
    /\ min_links_for_aggregation = 0
    /\ config = Replica2WeightedConfigDefault
    /\ links = <<>>
    /\ entries = <<>>
    /\ cache = <<>>
    /\ metrics = SchedulerMetricsDefault
    /\ last = NoCall
    /\ ncalls = 0
    /\ picks = <<>>
    /\ excluded_interfaces \in {<<>>, <<"eth1">>}
    /\ aggregation = "MirrorAll"
    /\ host \in HostInits
    /\ swaps = NoSwaps
    /\ channels = NoChannels
    /\ chan_lock = None
    /\ wg_addr = <<>>
    /\ weights_file = NoFile
    /\ weight_manager = WeightManagerNew(NoFile)
    /\ rr_state = WeightedRoundRobinStateNew
    /\ poller = PollerIdle
    /\ ingress = IngressIdle
    /\ mgmt = MgmtIdle
    /\ sent = <<>>
    /\ hist = [last |-> NoWrite, prev |-> NoWrite, nevents |-> 0,
               audit |-> FALSE, done |-> NoDone, nwrites |-> 0, bindfail |-> {}]
    /\ client_cfg \in {ClientCfg, ClientCfgHostName}
    /\ tasks = <<>>
    /\ forwarded = <<>>
    /\ locks = <<>>
    /\ server = <<>>

\* create_send_thread: the destination does not parse
CreateDstFail ==
    /\ poller.pc = "bind"
    /\ parse_socket_addr(get_dst_by_ifname(poller.ifname, client_cfg)) = <<>>
    /\ poller' = [poller EXCEPT !.pc = "add", !.ifname = "", !.ip = ""]
    /\ UNCHANGED <<schedVars, fairVars, excluded_interfaces, aggregation, swaps,
                   host, channels, chan_lock, weight_manager, weights_file,
                   wg_addr, ingress, mgmt, sent, hist>>
    /\ UNCHANGED linkVars

\* create_send_thread: the destination parses and the bind fails
CreateBindFail ==
    /\ poller.pc = "bind"
    /\ parse_socket_addr(get_dst_by_ifname(poller.ifname, client_cfg)) # <<>>
    /\ poller' = [poller EXCEPT !.pc = "add", !.ifname = "", !.ip = ""]
    /\ hist' = [hist EXCEPT !.bindfail = @ \cup {poller.ifname}]
    /\ UNCHANGED <<schedVars, fairVars, excluded_interfaces, aggregation, swaps,
                   host, channels, chan_lock, weight_manager, weights_file,
                   wg_addr, ingress, mgmt, sent>>
    /\ UNCHANGED linkVars

PollerNext ==
    \/ HostChange
    \/ handle_swap_exclusion
    \/ PollerEnumerate
    \/ PollerLock
    \/ PollerRemoveStep
    \/ PollerUnlock
    \/ PollerAddSkip
    \/ PollerAddNew
    \/ CreateDstFail
    \/ CreateBindFail
    \/ CreateBindOk
    \/ PollerSleep

SpecPoller == PollerInit /\ [][PollerNext]_vars

\* the steps of update_available_interfaces
PollerStep ==
    \/ PollerEnumerate
    \/ PollerLock
    \/ PollerRemoveStep
    \/ PollerUnlock
    \/ PollerAddSkip
    \/ PollerAddNew
    \/ CreateDstFail
    \/ CreateBindFail
    \/ CreateBindOk
    \/ PollerSleep

\* SpecPoller with the poller task scheduled again and again, and with a
\* bind that is retried for ever succeeding at some retry
FairPoller ==
    /\ PollerInit
    /\ [][PollerNext]_vars
    /\ WF_vars(PollerStep)
    /\ SF_vars(CreateBindOk)

\* ------------------------- SpecReload: the weight store under the ingress
\* The weight store and its file as in SpecWeights, with the datagrams of the
\* ingress in WeightedRoundRobin mode: weights_for, then rebuild and
\* next_interface on the state, for the sorted names of a table snapshot.
WrrDatagram ==
    /\ hist.nevents < MaxStoreEvents
    /\ \E S \in SUBSET IfNames :
       \E w \in {weights_for(weight_manager, weights_file, SortNames(S))} :
       \E n \in {WrrState_next_interface(
                   WrrState_rebuild(rr_state, SortNames(S), w.map, w.wm.version))} :
         /\ weight_manager' = w.wm
         /\ rr_state' = n.state
         /\ hist' = StoreLogged("datagram", SortNames(S), w.wm.weights, w.wm,
                                weights_file, w.map)
    /\ UNCHANGED <<schedVars, picks, excluded_interfaces, aggregation, swaps,
                   host, channels, chan_lock, weights_file, wg_addr, poller,
                   ingress, mgmt, sent>>
    /\ UNCHANGED linkVars

ReloadNext ==
    \/ EnsureCall
    \/ WrrDatagram
    \/ FileEdit
    \/ FileRemove
    \/ FileProtect

SpecReload == WeightsInit /\ [][ReloadNext]_vars

\* ------------------------------------ SpecLocks: the locks of the client
\* Each task as the sequence of lock operations and suspension points of one
\* turn of its loop (of one request, for a handler), in program order, with
\* every branch that takes a lock taken.  "lock" and "unlock" are
\* Mutex::lock().unwrap() and the drop of its guard (the thread blocks while
\* the mutex is held), "write" and "read" are RwLock::write().await and
\* read().await (the task is suspended until granted), "release" the drop of
\* their guard, "await" any other suspension point.  locks.pc is each task's
\* next operation, locks.held what each task holds.
LockOp(op, what) == [op |-> op, what |-> what]

last_rec(name) == "last_rec_" \o name

\* update_available_interfaces, with create_send_thread
update_available_interfaces_locks ==
    <<LockOp("lock", "table"), LockOp("lock", "swaps"), LockOp("unlock", "swaps"),
      LockOp("unlock", "table"),
      LockOp("lock", "swaps"), LockOp("unlock", "swaps"),
      LockOp("lock", "table"), LockOp("unlock", "table"),
      LockOp("lock", "wm"), LockOp("unlock", "wm"),
      LockOp("await", "bind"),
      LockOp("lock", "table"), LockOp("unlock", "table"),
      LockOp("await", "sleep")>>

\* receive_from_wireguard, on the weighted round-robin branch
receive_from_wireguard_locks ==
    <<LockOp("await", "recv_from"),
      LockOp("write", "wg_addr"), LockOp("release", "wg_addr"),
      LockOp("lock", "table"), LockOp("unlock", "table"),
      LockOp("lock", "wm"), LockOp("unlock", "wm"),
      LockOp("lock", "wrr"), LockOp("unlock", "wrr"),
      LockOp("await", "send_to")>>

\* the body of the loop of handle_get_list for one interface
RECURSIVE get_list_entries(_)
get_list_entries(names) ==
    IF names = <<>> THEN <<>>
    ELSE <<LockOp("lock", "swaps"), LockOp("unlock", "swaps"),
           LockOp("lock", last_rec(Head(names))),
           LockOp("unlock", last_rec(Head(names)))>> \o get_list_entries(Tail(names))

\* mutant: a suspension point inside the loop
handle_get_list_locks_AwaitInside(names) ==
    <<LockOp("lock", "table")>> \o get_list_entries(names)
        \o <<LockOp("await", "reply"), LockOp("unlock", "table")>>

\* handle_get_list over the interfaces of the host
handle_get_list_locks(names) ==
    <<LockOp("lock", "table")>> \o get_list_entries(names)
        \o <<LockOp("unlock", "table")>>

\* handle_include, handle_exclude: is_swapped, then swap_exclusion
handle_include_locks ==
    <<LockOp("lock", "swaps"), LockOp("unlock", "swaps"),
      LockOp("lock", "swaps"), LockOp("unlock", "swaps")>>

\* mutant: the link table is looked at while last_rec is held
wg_write_back_locks_TableInside(name) ==
    <<LockOp("await", "recv"),
      LockOp("lock", last_rec(name)), LockOp("lock", "table"),
      LockOp("unlock", "table"), LockOp("unlock", last_rec(name)),
      LockOp("read", "wg_addr"), LockOp("await", "send_to"),
      LockOp("release", "wg_addr")>>

\* wg_write_back of the link of an interface; the guard of read().await
\* lives to the end of the if let, across send_to().await
wg_write_back_locks(name) ==
    <<LockOp("await", "recv"),
      LockOp("lock", last_rec(name)), LockOp("unlock", last_rec(name)),
      LockOp("read", "wg_addr"), LockOp("await", "send_to"),
      LockOp("release", "wg_addr")>>

LinkTasks == {"link_" \o n : n \in IfNames}
LockTasks == {"poller", "ingress", "get_list", "include"} \cup LinkTasks

\* the link task of each interface
LinkOf(t) == CHOOSE n \in IfNames : t = "link_" \o n

LockProgram(t) ==
    CASE t = "poller" -> update_available_interfaces_locks
      [] t = "ingress" -> receive_from_wireguard_locks
      [] t = "get_list" -> handle_get_list_locks(SortedNames)
      [] t = "include" -> handle_include_locks
      [] OTHER -> wg_write_back_locks(LinkOf(t))

\* the operation task t is at
NextOp(t) == LockProgram(t)[locks.pc[t]]

\* the tasks that hold the lock, and those that hold it exclusively
Holders(l) == {t \in LockTasks : \E h \in locks.held[t] : h.lock = l}
Owners(l) == {t \in LockTasks : [lock |-> l, mode |-> "x"] \in locks.held[t]}

\* the tasks queued for RwLock::write on the lock
Writers(l) == {t \in LockTasks : NextOp(t) = LockOp("write", l)}

\* the tasks task t is waiting for at its operation
Blockers(t) ==
    CASE NextOp(t).op \in {"lock", "write"} -> Holders(NextOp(t).what)
      [] NextOp(t).op = "read" -> Owners(NextOp(t).what) \cup Writers(NextOp(t).what)
      [] OTHER -> {}

LocksInit ==
    /\ algorithm = None
    /\ min_links_for_aggregation = 0
    /\ config = Replica2WeightedConfigDefault
    /\ links = <<>>
    /\ entries = <<>>
    /\ cache = <<>>
    /\ metrics = SchedulerMetricsDefault
    /\ last = NoCall
    /\ ncalls = 0
    /\ rr_state = WeightedRoundRobinStateNew
    /\ picks = <<>>
    /\ excluded_interfaces = <<>>
    /\ aggregation = "WeightedRoundRobin"
    /\ swaps = NoSwaps
    /\ host = <<>>
    /\ channels = NoChannels
    /\ chan_lock = None
    /\ weight_manager = <<>>
    /\ weights_file = <<>>
    /\ wg_addr = <<>>
    /\ poller = <<>>
    /\ ingress = <<>>
    /\ mgmt = <<>>
    /\ sent = <<>>
    /\ hist = <<>>
    /\ client_cfg = ClientCfg
    /\ tasks = <<>>
    /\ forwarded = <<>>
    /\ locks = [pc |-> [t \in LockTasks |-> 1], held |-> [t \in LockTasks |-> {}]]
    /\ server = <<>>

\* task t does its next operation
LockStep(t) ==
    /\ Blockers(t) = {}
    /\ LET o == NextOp(t)
           after == IF locks.pc[t] = Len(LockProgram(t)) THEN 1 ELSE locks.pc[t] + 1
           held == CASE o.op \in {"lock", "write"} ->
                           locks.held[t] \cup {[lock |-> o.what, mode |-> "x"]}
                     [] o.op = "read" ->
                           locks.held[t] \cup {[lock |-> o.what, mode |-> "r"]}
                     [] o.op \in {"unlock", "release"} ->
                           {h \in locks.held[t] : h.lock # o.what}
                     [] OTHER -> locks.held[t]
       IN locks' = [pc |-> [locks.pc EXCEPT ![t] = after],
                    held |-> [locks.held EXCEPT ![t] = held]]
    /\ UNCHANGED <<schedVars, fairVars, clientVars, client_cfg, tasks, forwarded,
                   server>>

LockPoller == LockStep("poller")

LockIngress == LockStep("ingress")

LockGetList == LockStep("get_list")

LockInclude == LockStep("include")

LockLink == \E t \in LinkTasks : LockStep(t)

LocksNext ==
    \/ LockPoller
    \/ LockIngress
    \/ LockGetList
    \/ LockInclude
    \/ LockLink

SpecLocks == LocksInit /\ [][LocksNext]_vars

\* ------------------------------------- SpecServer: the server, UDP mode
\* The client table of the server (Server/src/main.rs) under its two tasks:
\* the main loop, which enters the source of each datagram of a client, and
\* receive_from_wireguard, which relays each datagram of WireGuard to every
\* client of a snapshot and then removes clients.  Time is in ticks of
\* server.clock; an entry's seq tells the insert that wrote it.
\* server.removed: the removals of the latest pass, each with the entry the
\* snapshot held (snap) and the entry the table held as it was removed (held).
ClientKeys == {"198.51.100.1:5000", "198.51.100.2:5000"}

\* clientTimeout, in ticks
ClientTimeout == 2

NoClients == [k \in {} |-> [last |-> 0, seq |-> 0]]

ServerIdle ==
    [clients |-> NoClients, clock |-> 0, nevents |-> 0,
     wg |-> [pc |-> "recv", now |-> 0, snapshot |-> NoClients],
     removed |-> {}]

ServerInit ==
    /\ algorithm = None
    /\ min_links_for_aggregation = 0
    /\ config = Replica2WeightedConfigDefault
    /\ links = <<>>
    /\ entries = <<>>
    /\ cache = <<>>
    /\ metrics = SchedulerMetricsDefault
    /\ last = NoCall
    /\ ncalls = 0
    /\ rr_state = WeightedRoundRobinStateNew
    /\ picks = <<>>
    /\ excluded_interfaces = <<>>
    /\ aggregation = "MirrorAll"
    /\ swaps = NoSwaps
    /\ host = <<>>
    /\ channels = NoChannels
    /\ chan_lock = None
    /\ weight_manager = <<>>
    /\ weights_file = <<>>
    /\ wg_addr = <<>>
    /\ poller = <<>>
    /\ ingress = <<>>
    /\ mgmt = <<>>
    /\ sent = <<>>
    /\ hist = <<>>
    /\ client_cfg = ClientCfg
    /\ tasks = <<>>
    /\ forwarded = <<>>
    /\ locks = <<>>
    /\ server = ServerIdle

ServerUnchanged ==
    UNCHANGED <<schedVars, fairVars, clientVars, client_cfg, tasks, forwarded, locks>>

\* time passes
ServerTick ==
    /\ server.nevents < MaxServerEvents
    /\ server' = [server EXCEPT !.clock = @ + 1, !.nevents = @ + 1]
    /\ ServerUnchanged

\* the main loop: client_socket.recv_from returns a datagram of a client,
\* whose entry is inserted with last = now
ClientDatagram ==
    /\ server.nevents < MaxServerEvents
    /\ \E key \in ClientKeys :
         server' = [server EXCEPT
                      !.nevents = @ + 1,
                      !.clients = [k \in DOMAIN @ \cup {key} |->
                                     IF k = key
                                     THEN [last |-> server.clock,
                                           seq |-> server.nevents + 1]
                                     ELSE @[k]]]
    /\ ServerUnchanged

\* receive_from_wireguard: wg_socket.recv_from returns; now and the snapshot
\* of the table are taken and the sends started
WgRecv ==
    /\ server.wg.pc = "recv"
    /\ server' = [server EXCEPT !.wg = [pc |-> "sends", now |-> server.clock,
                                        snapshot |-> server.clients]]
    /\ ServerUnchanged

\* alive, computed from the snapshot as the sends are built
alive(now, client) == now - client.last < ClientTimeout

\* the keys the pass collects in to_remove
to_remove(now, snapshot, results) ==
    {k \in DOMAIN snapshot : ~alive(now, snapshot[k]) \/ results[k] # "ok"}

\* the keys guard.remove takes out of the table
keys_removed(keys, snapshot, table) == keys \cap DOMAIN table

\* join_all returns: every send has ended in Ok, Err or a timeout; the keys of
\* to_remove are removed from the table
WgJoinAll ==
    /\ server.wg.pc = "sends"
    /\ \E results \in [DOMAIN server.wg.snapshot -> SendOutcomes] :
         LET keys == keys_removed(to_remove(server.wg.now, server.wg.snapshot, results),
                                  server.wg.snapshot, server.clients)
         IN server' = [server EXCEPT
                         !.clients = [k \in DOMAIN @ \ keys |-> @[k]],
                         !.wg = [pc |-> "recv", now |-> 0, snapshot |-> NoClients],
                         !.removed = {[key |-> k, result |-> results[k],
                                       snap |-> server.wg.snapshot[k],
                                       held |-> server.clients[k],
                                       at |-> server.clock] : k \in keys}]
    /\ ServerUnchanged

ServerNext ==
    \/ ServerTick
    \/ ClientDatagram
    \/ WgRecv
    \/ WgJoinAll

SpecServer == ServerInit /\ [][ServerNext]_vars

\* ------------------------------------------------ claims on the snapshot
SnapshotInUse(i) == i.pc \in {"select", "send"}

\* the datagrams appended by the step
NewlySent == SubSeq(sent', Len(sent) + 1, Len(sent'))

\* C15: the snapshot the ingress task takes is the table as it is at that
\* instant, taken while the poller does not hold the lock; no step changes it
\* while it is in use, whatever the poller does to the table; and the
\* datagram is scheduled on and sent over entries of that snapshot only, with
\* the snapshot's addresses (every entry under mirror-all and hybrid, the one
\* selected entry under weighted round robin).
C15_SnapshotIsStable ==
    [][/\ (ingress.pc = "snapshot" /\ SnapshotInUse(ingress'))
            => (ingress'.snapshot = channels /\ chan_lock # "poller")
       /\ (SnapshotInUse(ingress) /\ SnapshotInUse(ingress'))
            => ingress'.snapshot = ingress.snapshot
       /\ (ingress.pc = "select" /\ ingress'.pc = "send")
            => ingress'.selected \in DOMAIN ingress.snapshot
       /\ sent' # sent =>
            /\ ingress.pc = "send"
            /\ \A i \in DOMAIN NewlySent :
                 /\ NewlySent[i].ifname \in DOMAIN ingress.snapshot
                 /\ NewlySent[i].src_addr = ingress.snapshot[NewlySent[i].ifname].src_addr
                 /\ NewlySent[i].dst_addr = ingress.snapshot[NewlySent[i].ifname].dst_addr
                 /\ \A j \in DOMAIN NewlySent :
                      NewlySent[i].ifname = NewlySent[j].ifname => i = j
            /\ IF aggregation = "WeightedRoundRobin"
               THEN Len(NewlySent) = 1
               ELSE {NewlySent[i].ifname : i \in DOMAIN NewlySent}
                      = DOMAIN ingress.snapshot
      ]_vars

\* a datagram has gone out on both entries of the snapshot although the
\* poller has taken eth1 out of the table since
C15_Witness ==
    /\ Len(sent) = 2
    /\ {sent[i].ifname : i \in DOMAIN sent} = {"eth0", "eth1"}
    /\ sent[1].dgram = sent[2].dgram
    /\ DOMAIN channels = {"eth0"}
    /\ ingress.pc = "recv"

\* ------------------------------------- claims on the version and the reload
StoreCalled == hist.call.op \in {"ensure", "weights_for"}

\* the call found a file it reads and parses whose mtime is not the cached one
ReloadsFile(c) ==
    /\ c.file0.exists /\ c.file0.form = "ok"
    /\ c.wm0.last_modified # <<c.file0.mtime>>

\* the call has names to add and the file can be written
SavesFile(c) ==
    /\ c.op = "ensure"
    /\ Range(c.names) \ DOMAIN c.loaded # {}
    /\ c.file0.writable

\* C21: the version of the weight store never decreases; a call raises it by
\* 1 for the reload it makes and by 1 for the save it makes, and leaves it
\* alone when it neither reloads nor saves; a change of the file from outside
\* leaves it alone as well.
C21_VersionCountsReloadsAndSaves ==
    /\ hist.call.wm.version >= hist.call.wm0.version
    /\ StoreCalled =>
         hist.call.wm.version =
            hist.call.wm0.version
            + (IF ReloadsFile(hist.call) THEN 1 ELSE 0)
            + (IF SavesFile(hist.call) THEN 1 ELSE 0)
    /\ ~StoreCalled => hist.call.wm.version = hist.call.wm0.version

\* one ensure_interfaces reloads the edited file and saves the name it adds;
\* the call before it could do neither
C21_Witness ==
    /\ hist.call.op = "ensure"
    /\ ReloadsFile(hist.call) /\ SavesFile(hist.call)
    /\ hist.call.wm0.version >= 1
    /\ hist.call.wm.version = hist.call.wm0.version + 2

\* C22: reload_if_needed (as weights_for runs it) changes nothing when the
\* file's mtime is the cached one, whatever the file holds; and when the file
\* cannot be read or parsed, the mapping and the version are as before the
\* call.
C22_ReloadKeepsStateOnError ==
    (hist.call.op = "weights_for" /\ hist.call.file0.exists) =>
        /\ (/\ hist.call.file0.form # "noaccess"
            /\ hist.call.wm0.last_modified = <<hist.call.file0.mtime>>)
               => hist.call.wm = hist.call.wm0
        /\ hist.call.file0.form \in {"unreadable", "unparsable"} =>
              /\ hist.call.wm.weights = hist.call.wm0.weights
              /\ hist.call.wm.version = hist.call.wm0.version

\* a file with a new mtime and new entries that does not parse, met by a
\* manager that holds a mapping
C22_Witness ==
    /\ hist.call.op = "weights_for"
    /\ hist.call.file0.exists /\ hist.call.file0.form = "unparsable"
    /\ hist.call.wm0.last_modified # <<hist.call.file0.mtime>>
    /\ hist.call.wm0.weights # NoWeights
    /\ hist.call.file0.contents # hist.call.wm0.weights
    /\ hist.call.wm = hist.call.wm0

\* ------------------------------------- claims on the downstream ingress
\* the ingress task holds a datagram whose source it has not written yet
AddrWritePending == ingress.pc = "set_addr"

C29_SendFailureChangesNothing ==
    [][/\ sent' # sent =>
            /\ channels' = channels
            /\ rr_state' = rr_state
            /\ \A i \in DOMAIN sent :
                 ~(sent[i].ifname = sent'[Len(sent')].ifname
                   /\ sent[i].dgram = sent'[Len(sent')].dgram)
       /\ ~(DOMAIN channels \subseteq DOMAIN channels') =>
            (poller.pc = "remove" /\ poller'.keys # poller.keys)
      ]_vars

\* the latest send timed out or failed and its link is in the table with the
\* record the send was made from; the next datagram went out on it again
C29_Witness ==
    /\ hist.outcome \in {"error", "timeout"}
    /\ Len(sent) >= 2
    /\ sent[Len(sent)].ifname \in DOMAIN channels
    /\ channels[sent[Len(sent)].ifname].src_addr = sent[Len(sent)].src_addr
    /\ \E i \in DOMAIN sent :
          /\ sent[i].ifname = sent[Len(sent)].ifname
          /\ sent[i].dgram < sent[Len(sent)].dgram

\* C30: every send in flight belongs to the datagram received last, none is
\* in flight while the ingress task waits in recv_from or prepares the next
\* datagram, and on each link the datagrams are handed to the socket in the
\* order of their arrival.
C30_PerLinkFifo ==
    /\ \A f \in ingress.pending : f.dgram = ingress.n
    /\ ingress.pc # "send" => ingress.pending = {}
    /\ \A i, j \in DOMAIN sent :
         (i < j /\ sent[i].ifname = sent[j].ifname) => sent[i].dgram < sent[j].dgram

\* two datagrams mirrored on two links, the sends of the first resolved in
\* one order and those of the second in the other
C30_Witness ==
    /\ aggregation = "MirrorAll" /\ Len(sent) = 4
    /\ sent[1].ifname = "eth0" /\ sent[2].ifname = "eth1"
    /\ sent[3].ifname = "eth1" /\ sent[4].ifname = "eth0"
    /\ sent[1].dgram = 1 /\ sent[2].dgram = 1
    /\ sent[3].dgram = 2 /\ sent[4].dgram = 2

\* ------------------------------------------------ claims on the poller
\* the step of the removal loop that examines the head of poller.keys
RemovalExamines(name) ==
    /\ poller.pc = "remove" /\ poller.keys # <<>> /\ Head(poller.keys) = name
    /\ poller'.keys = Tail(poller.keys)

\* C24 as claimed: every link the removal loop leaves in the table belongs to
\* an interface that, as the loop examines it, exists, is not effectively
\* excluded, and has for selected IPv4 the record's src_addr; so an interface
\* without a usable IPv4 left does not stay in the table.
C24_Original ==
    [][\A name \in IfNames :
         (RemovalExamines(name) /\ name \in DOMAIN channels') =>
            /\ interface_exists(host, name)
            /\ ~is_excluded(name, excluded_interfaces, swaps)
            /\ get_address_by_interface(host, name) = <<channels[name].src_addr>>
      ]_vars

\* ------------------------------------------------- claims on the link tasks
\* a task of the interface still reads a socket whose routine left the table
OrphanLive(name) ==
    \E i \in DOMAIN tasks :
        /\ tasks[i].ifname = name
        /\ tasks[i].pc # "exited"
        /\ ~Tabled(i)

\* the tasks of the interface that have not ended
LiveTasks(name) == {i \in DOMAIN tasks : tasks[i].ifname = name /\ tasks[i].pc # "exited"}

\* C26: once the poller has removed a link, the task that reads the link's
\* socket ends, and an interface never has two tasks alive.
C26_Original ==
    /\ \A name \in IfNames : OrphanLive(name) ~> ~OrphanLive(name)
    /\ [](\A name \in IfNames : Cardinality(LiveTasks(name)) <= 1)

\* the table holds the interface with a routine whose task has ended
ExitedTabled(name) ==
    /\ name \in DOMAIN channels
    /\ tasks[channels[name].sock].pc = "exited"

\* the table holds the interface with a routine whose task is alive
LiveTabled(name) ==
    /\ name \in DOMAIN channels
    /\ tasks[channels[name].sock].pc # "exited"

\* the poller would table the interface: it exists, is not excluded and has
\* a usable IPv4
Tableable(name) ==
    /\ interface_exists(host, name)
    /\ ~is_excluded(name, excluded_interfaces, swaps)
    /\ get_address_by_interface(host, name) # <<>>

\* C27: a link whose task ended on a recv failure is tabled again with a
\* live task, as long as the interface stays usable.
C27_Original ==
    \A name \in IfNames : [](ExitedTabled(name) => <>(LiveTabled(name) \/ ~Tableable(name)))

\* C28: every datagram forwarded to the reply address came from the
\* destination address of the link it arrived on.
C28_Original == \A k \in DOMAIN forwarded : forwarded[k].from = forwarded[k].dst_addr

\* the destination of the interface parses as a socket address
DstParses(name) == get_dst_by_ifname(name, client_cfg) \in ParsableAddrs

\* C25 as stated: an interface that stays existing, not excluded and with a
\* usable IPv4 is in the link table again and again.
C25_Original ==
    \A name \in IfNames : <>[]Tableable(name) => []<>(name \in DOMAIN channels)

\* C25: an interface that stays existing, not excluded and with a usable
\* IPv4, and whose destination parses as a socket address, is in the link
\* table again and again, whatever binds failed before.
C25_TableableIsTabled ==
    \A name \in IfNames :
        <>[](Tableable(name) /\ DstParses(name)) => []<>(name \in DOMAIN channels)

\* eth1, excluded by the configuration and un-excluded by a swap, is tabled
\* after a bind for it had failed
C25_Witness ==
    /\ excluded_interfaces = <<"eth1">>
    /\ is_swapped(swaps, "eth1")
    /\ "eth1" \in hist.bindfail
    /\ "eth1" \in DOMAIN channels
    /\ Tableable("eth1")

\* ------------------------------------ claims on select_paths of the WRR
WrrSelected == ncalls > 0 /\ algorithm = "WeightedRoundRobin"

\* the link of the slice the call was made on, by id
PreLink(id) == last.pre[CHOOSE j \in DOMAIN last.pre : last.pre[j].id = id]

\* the link is eligible at call time: up, enough tokens, positive weight
WrrEligibleLink(l) == l.up /\ l.tokens >= last.pkt_len /\ l.weight > 0

\* the entries of eligible links after the call
EligibleEntries == {i \in DOMAIN entries : WrrEligibleLink(PreLink(entries[i].id))}

\* the sum of the eligible links' weights
EligibleTotal ==
    SumSeq([j \in DOMAIN last.pre |->
              IF WrrEligibleLink(last.pre[j]) THEN last.pre[j].weight ELSE 0])

\* current_weight of entry i after the increments and before the winner paid
Incremented(i) ==
    entries[i].current_weight
      + (IF last.result = <<entries[i].id>> THEN EligibleTotal ELSE 0)

\* the eligible entries with the maximal current_weight after the increments
TopEntries ==
    {i \in EligibleEntries : \A j \in EligibleEntries : Incremented(j) <= Incremented(i)}

\* C33: among the eligible entries with the maximal current_weight after the
\* increments, the winner is the one with the lowest path id, whatever the
\* order of the links in the slice.
C33_Original ==
    (WrrSelected /\ last.result # <<>>) =>
        \A i \in TopEntries : last.result[1] <= entries[i].id

\* the entry the call found for this id (empty: none)
PreEntry(id) == SelectSeq(hist.pre_entries, LAMBDA e : e.id = id)

\* the entries of links not eligible in the call that were there before it
IdleEntries ==
    {i \in DOMAIN entries \ EligibleEntries : PreEntry(entries[i].id) # <<>>}

\* at most one id, of an eligible link with the maximal current_weight, and
\* none exactly when no link is eligible
WrrResultIsTop ==
    /\ Len(last.result) <= 1
    /\ last.result # <<>> =>
          /\ WrrEligibleLink(PreLink(last.result[1]))
          /\ \E i \in TopEntries : entries[i].id = last.result[1]
    /\ last.result = <<>> <=> \A j \in DOMAIN last.pre : ~WrrEligibleLink(last.pre[j])

Clamped(l) == IF l.weight > 0 THEN l.weight ELSE 0

UpWeights(ls) ==
    LET upl == SelectSeq(ls, LAMBDA l : l.up)
    IN [p \in DOMAIN upl |-> [id |-> upl[p].id, weight |-> upl[p].weight]]

\* the latest call found the up links and the weights of the call before it
SameLinksAsBefore == ncalls >= 2 /\ UpWeights(last.pre) = UpWeights(hist.prev_pre)

\* the sum of the weights of all entries
FullTotal == SumSeq([i \in DOMAIN entries |-> entries[i].weight])

\* C38: after a select_paths call that found the same up links and weights
\* as the call before it, the current_weights of the entries sum to 0 and
\* each lies within the total weight of all entries.
C38_Original ==
    (WrrSelected /\ SameLinksAsBefore) =>
        /\ SumSeq([i \in DOMAIN entries |-> entries[i].current_weight]) = 0
        /\ \A i \in DOMAIN entries :
              /\ entries[i].current_weight <= FullTotal
              /\ entries[i].current_weight >= 0 - FullTotal

\* ------------------------------------------ claims on the Replica2 counters
\* C35: a call that is not delegated adds 1 to replica2_primary when it
\* returns an id and 1 to replica2_secondary when it returns two; a delegated
\* call changes neither; so replica2_secondary <= replica2_primary, and
\* replica2_primary + replica2_fallbacks is the number of calls.
C35_Replica2CountersFollowCalls ==
    algorithm = "Replica2Weighted" =>
        /\ (Called /\ ~last.delegated) =>
              /\ metrics.replica2_primary =
                   last.pre_metrics.replica2_primary
                     + (IF Len(last.result) >= 1 THEN 1 ELSE 0)
              /\ metrics.replica2_secondary =
                   last.pre_metrics.replica2_secondary
                     + (IF Len(last.result) = 2 THEN 1 ELSE 0)
        /\ (Called /\ last.delegated) =>
              /\ metrics.replica2_primary = last.pre_metrics.replica2_primary
              /\ metrics.replica2_secondary = last.pre_metrics.replica2_secondary
        /\ metrics.replica2_secondary <= metrics.replica2_primary
        /\ metrics.replica2_primary + metrics.replica2_fallbacks = ncalls

\* a call that returned two ids, then a delegated call
C35_Witness ==
    /\ algorithm = "Replica2Weighted"
    /\ ncalls = 2
    /\ last.delegated
    /\ metrics.replica2_primary = 1
    /\ metrics.replica2_secondary = 1
    /\ metrics.replica2_fallbacks = 1

\* ----------------------------------------- claims on the per-link ingress
\* task i takes a datagram from its socket in this step
Receives(i) == tasks[i].pc = "recv" /\ tasks'[i].pc = "forward"

\* task i is done with the datagram it holds in this step
Handles(i) == tasks[i].pc = "forward" /\ tasks'[i].pc # "forward"

\* C31: a datagram taken from a link's socket sets the link's last_rec at
\* once; it is then sent to the reply address exactly when one is set at that
\* moment, and otherwise dropped; nothing but the datagram a task is handling
\* is ever sent, so a dropped one is not sent later; and the task goes back to
\* recv whether the send succeeded or failed.
C31_ForwardIffAddrSet ==
    [][(\A i \in DOMAIN tasks :
            /\ Receives(i) => tasks'[i].last_rec = tasks'[i].dgram
            /\ Handles(i) =>
                  /\ tasks'[i].pc = "recv"
                  /\ tasks'[i].last_rec >= tasks[i].dgram
                  /\ IF wg_addr = <<>>
                     THEN forwarded' = forwarded
                     ELSE /\ Len(forwarded') = Len(forwarded) + 1
                          /\ forwarded'[Len(forwarded')].dgram = tasks[i].dgram
                          /\ forwarded'[Len(forwarded')].to = wg_addr[1])
       /\ (forwarded' # forwarded =>
              /\ \E j \in DOMAIN tasks :
                    /\ Handles(j)
                    /\ forwarded' = Append(forwarded, forwarded'[Len(forwarded')])
                    /\ forwarded'[Len(forwarded')].dgram = tasks[j].dgram
              /\ \A k \in DOMAIN forwarded :
                    forwarded[k].dgram # forwarded'[Len(forwarded')].dgram)
      ]_vars

\* a task forwards a datagram after its send of an earlier one failed
C31_Witness ==
    \E k, l \in DOMAIN forwarded :
        /\ k < l
        /\ forwarded[k].sock = forwarded[l].sock
        /\ ~forwarded[k].ok
        /\ tasks[forwarded[l].sock].last_rec = forwarded[l].dgram

\* -------------------------------------------------- claims on the locks
\* the task is suspended at an await
Suspended(t) == NextOp(t).op \in {"await", "read", "write"}

Holds(t, l) == t \in Holders(l)

\* C32: the poller, the downstream ingress and the list handler hold the
\* link table's mutex at no suspension point, so a task that waits for the
\* mutex waits for a task that is running.
C32_TableLockNotAcrossAwait ==
    /\ \A t \in {"poller", "ingress", "get_list"} :
          Suspended(t) => ~Holds(t, "table")
    /\ \A t \in LockTasks :
          NextOp(t) = LockOp("lock", "table") => \A u \in Blockers(t) : ~Suspended(u)

\* the list handler holds the mutex, the ingress waits for it, and the
\* poller is suspended in its bind without it
C32_Witness ==
    /\ Holds("get_list", "table")
    /\ NextOp("ingress") = LockOp("lock", "table")
    /\ NextOp("poller") = LockOp("await", "bind")

\* the order of the locks: the link table before the swap set and before a
\* link's last_rec; the others are taken alone
LockRank(l) == IF l \in {"table", "wm", "wrr", "wg_addr"} THEN 1 ELSE 2

\* C39: a task takes a lock only while it holds locks of lower rank, and no
\* set of tasks wait for one another.
C39_NoLockCycle ==
    /\ \A t \in LockTasks :
          NextOp(t).op \in {"lock", "read", "write"} =>
              \A h \in locks.held[t] : LockRank(h.lock) < LockRank(NextOp(t).what)
    /\ \A S \in SUBSET LockTasks \ {{}} :
          \E t \in S : Blockers(t) \cap S = {}

\* the ingress waits to write the reply address while a link task holds its
\* read guard in send_to, the other link task waits behind the ingress, and
\* the poller waits for the link table, which the list handler holds
C39_Witness ==
    /\ NextOp("ingress") = LockOp("write", "wg_addr")
    /\ NextOp("link_eth0") = LockOp("await", "send_to")
    /\ NextOp("link_eth1") = LockOp("read", "wg_addr")
    /\ "ingress" \in Blockers("link_eth1")
    /\ Holds("get_list", "table")
    /\ NextOp("poller") = LockOp("lock", "table")

\* --------------------------------- claims on include and exclude by name
\* C37 (as stated): right after exclude(name) is_excluded(name) is true and
\* right after include(name) it is false, for every name, listed in
\* excluded_interfaces or not; the call ran with no other write of the swap
\* set between its test and its end.
C37_Original ==
    (hist.done.op \in {"include", "exclude"} /\ hist.done.atomic) =>
        (is_excluded(hist.done.name, excluded_interfaces, hist.done.after)
            = (hist.done.op = "exclude"))

\* -------------------------- claims on the weight store under the ingress
\* the names and weights of the servers of the state
ServerWeights(st) ==
    [i \in DOMAIN st.servers |->
        [name |-> st.servers[i].name, weight |-> st.servers[i].weight]]

\* the names of the slice whose weight in the map is positive (not <= 0.0),
\* with their weights, in the order of the slice
RECURSIVE PositiveEntries(_, _)
PositiveEntries(names, map) ==
    IF names = <<>> THEN <<>>
    ELSE (IF F64LeZero(map[Head(names)]) THEN <<>>
          ELSE <<[name |-> Head(names), weight |-> map[Head(names)]]>>)
         \o PositiveEntries(Tail(names), map)

\* C36 (as stated): a call that changes the mapping of the weight store
\* changes its version, and after the rebuild of a datagram the servers and
\* weights of the state are the positive-weight entries of the weights_for
\* result of that datagram.
C36_Original ==
    /\ hist.call.op \in {"ensure", "datagram"} =>
          (hist.call.wm.weights # hist.call.wm0.weights =>
              hist.call.wm.version # hist.call.wm0.version)
    /\ hist.call.op = "datagram" =>
          ServerWeights(rr_state) = PositiveEntries(hist.call.names, hist.call.map)

\* ------------------------------------------ claims on the server's table
\* C40 (as stated): a client removed by a pass of the WireGuard-side task is,
\* as it is removed, timed out or failing, and its entry has not been
\* refreshed by a datagram received after the snapshot of the pass.
C40_Original ==
    \A r \in server.removed :
        /\ r.result # "ok" \/ r.at - r.held.last >= ClientTimeout
        /\ r.held = r.snap

=============================================================================
